---------------------------- MODULE Spec2Model ----------------------------
(***************************************************************************)
(* A model of the DeepBlunder chess engine: the bitboard Position with its *)
(* incremental make/undo (src/src/board.cpp), the pseudo-legal move        *)
(* generator (src/src/movelist.cpp), the attack primitives                 *)
(* (src/ChessEngine/Attack.cpp), the Zobrist keys                          *)
(* (src/ChessEngine/src/HashKey.cpp), the transposition table              *)
(* (src/src/table.cpp), the search (src/src/engine.cpp) and the UCI loop   *)
(* with its search thread (src/src/main.cpp).                              *)
(*                                                                         *)
(* A bitboard (uint64) is modelled as the set of its set bits, a subset of *)
(* 0..63: & is \cap, | is \cup, ^ is the symmetric difference and a shift  *)
(* moves every element and drops what leaves 0..63.  A 64-bit Zobrist key  *)
(* is a bit vector too; the random keys drawn by initHashKeys are modelled *)
(* as distinct one-bit vectors, and every key is 0 before initHashKeys.    *)
(***************************************************************************)
EXTENDS Integers, Sequences, FiniteSets, TLC

VARIABLES
    board,                  \* Engine::board, the Position
    hash_keys_initialized,  \* hashkey::hash_keys_initialized
    attackTablesInit,       \* initializedBishopAttackTable / initializedRookAttackTable
    lastOp,                 \* the Position operation performed last
    lastMove,               \* its move argument
    lastResult,             \* what makeMove / setToFEN returned
    before,                 \* the Position before the last operation
    snaps,                  \* the Positions before each move made and not undone
    setup,                  \* the last set-up: the FEN, what setToFEN returned, the moves
    probes,                 \* the arguments of the table's stores and of its last retrieve
    table,                  \* Engine::table, the transposition table
    info,                   \* Engine::info
    pvMove,                 \* Engine::pvMove
    searchKillers,          \* Engine::searchKillers
    searchHistory,          \* Engine::searchHistory
    counterMoves,           \* Engine::counterMoves: the entries written so far
    moveOverhead,           \* Engine::moveOverhead, option Move Overhead
    perftRun,               \* the perft in progress: its loops and its count
    attackQuery,            \* the last look-up in an attack table and what it returned
    ordered,                \* the last call of orderMoves: its arguments and the list it left
    search,                 \* the search thread: its SearchInfo argument and call stack
    uci,                    \* the main thread in uci(): quit, searchThread, lines read
    out,                    \* the moves of the bestmove lines written to stdout
    obs                     \* what the current search has done, for the properties

(***************************************************************************)
(* defs.h                                                                  *)
(***************************************************************************)
WHITE == 0
BLACK == 1
BOTH_COLORS == 2

WHITE_PAWN == 0
WHITE_KNIGHT == 1
WHITE_BISHOP == 2
WHITE_ROOK == 3
WHITE_QUEEN == 4
WHITE_KING == 5
BLACK_PAWN == 6
BLACK_KNIGHT == 7
BLACK_BISHOP == 8
BLACK_ROOK == 9
BLACK_QUEEN == 10
BLACK_KING == 11
PAWN == 0
KNIGHT == 1
BISHOP == 2
ROOK == 3
QUEEN == 4
KING == 5

INVALID == -1
NO_PIECE == -1
NUM_PIECE_TYPES == 12

A1 == 0
C1 == 2
D1 == 3
E1 == 4
F1 == 5
G1 == 6
H1 == 7
A8 == 56
C8 == 58
D8 == 59
E8 == 60
F8 == 61
G8 == 62
H8 == 63

CAPTURE_FLAG == 1048576
PROMOTION_FLAG == 2097152
CAPTURE_AND_PROMOTION_FLAG == 3145728
CASTLE_FLAG == 4194304
EN_PASSANT_FLAG == 8388608
PAWN_START_FLAG == 16777216

CASTLE_WK == 1
CASTLE_WQ == 2
CASTLE_BK == 4
CASTLE_BQ == 8

Squares == 0..63
Pieces == 0..11

pieceColor == [p \in Pieces |-> IF p < 6 THEN WHITE ELSE BLACK]

pieceMaterial ==
    [p \in Pieces |-> <<100, 325, 330, 500, 900, 0, 100, 325, 330, 500, 900, 0>>[p + 1]]

startingMaterial == 4010

pieceType == [c \in {WHITE, BLACK} |-> [t \in 0..5 |-> c * 6 + t]]

defaultPieces ==
    [sq \in Squares |->
        IF sq < 8 THEN <<WHITE_ROOK, WHITE_KNIGHT, WHITE_BISHOP, WHITE_QUEEN,
                         WHITE_KING, WHITE_BISHOP, WHITE_KNIGHT, WHITE_ROOK>>[sq + 1]
        ELSE IF sq < 16 THEN WHITE_PAWN
        ELSE IF sq < 48 THEN INVALID
        ELSE IF sq < 56 THEN BLACK_PAWN
        ELSE <<BLACK_ROOK, BLACK_KNIGHT, BLACK_BISHOP, BLACK_QUEEN,
               BLACK_KING, BLACK_BISHOP, BLACK_KNIGHT, BLACK_ROOK>>[sq - 55]]

(***************************************************************************)
(* Bit operations on bitboards and on the bits of an int.                  *)
(***************************************************************************)
Xor(a, b) == {x \in a \cup b : ~(x \in a /\ x \in b)}

ShiftLeft(bb, n) == {s \in Squares : s - n \in bb}

ShiftRight(bb, n) == {s \in Squares : s + n \in bb}

Min(S) == CHOOSE x \in S : \A y \in S : x <= y

Max(S) == CHOOSE x \in S : \A y \in S : x >= y

getLSB(bb) == Min(bb)

getMSB(bb) == Max(bb)

countBits(bb) == Cardinality(bb)

\* the squares of a bitboard in the order "while (bb) { getLSB(bb); bb &= bb - 1; }"
BitsOf(bb) ==
    [i \in 1..Cardinality(bb) |-> CHOOSE x \in bb : Cardinality({y \in bb : y < x}) = i - 1]

\* bit i of a 4-bit mask
HasBit(mask, bit) == (mask \div bit) % 2 = 1

\* a & b on 4-bit masks
And4(a, b) ==
    (IF HasBit(a, 1) /\ HasBit(b, 1) THEN 1 ELSE 0) + (IF HasBit(a, 2) /\ HasBit(b, 2) THEN 2 ELSE 0)
    + (IF HasBit(a, 4) /\ HasBit(b, 4) THEN 4 ELSE 0) + (IF HasBit(a, 8) /\ HasBit(b, 8) THEN 8 ELSE 0)

FileOf(sq) == sq % 8

RankOf(sq) == sq \div 8

FileA == {s \in Squares : FileOf(s) = 0}

FileB == {s \in Squares : FileOf(s) = 1}

FileG == {s \in Squares : FileOf(s) = 6}

FileH == {s \in Squares : FileOf(s) = 7}

Rank1And8 == {s \in Squares : RankOf(s) \in {0, 7}}

(***************************************************************************)
(* Attack.cpp: the ray tables, the slow slider attacks that fill the       *)
(* attack tables, and the table look-ups.                                  *)
(***************************************************************************)
RECURSIVE Walk(_, _, _)
Walk(f, r, d) ==
    LET nf == f + d[1]
        nr == r + d[2]
    IN  IF nf \in 0..7 /\ nr \in 0..7 THEN {nr * 8 + nf} \cup Walk(nf, nr, d) ELSE {}

rayNorth == [sq \in Squares |-> Walk(FileOf(sq), RankOf(sq), <<0, 1>>)]

raySouth == [sq \in Squares |-> Walk(FileOf(sq), RankOf(sq), <<0, -1>>)]

rayEast == [sq \in Squares |-> Walk(FileOf(sq), RankOf(sq), <<1, 0>>)]

rayWest == [sq \in Squares |-> Walk(FileOf(sq), RankOf(sq), <<-1, 0>>)]

rayNorthWest == [sq \in Squares |-> Walk(FileOf(sq), RankOf(sq), <<-1, 1>>)]

rayNorthEast == [sq \in Squares |-> Walk(FileOf(sq), RankOf(sq), <<1, 1>>)]

raySouthWest == [sq \in Squares |-> Walk(FileOf(sq), RankOf(sq), <<-1, -1>>)]

raySouthEast == [sq \in Squares |-> Walk(FileOf(sq), RankOf(sq), <<1, -1>>)]

bishopAttacks ==
    [sq \in Squares |->
        rayNorthEast[sq] \cup rayNorthWest[sq] \cup raySouthEast[sq] \cup raySouthWest[sq]]

rookAttacks ==
    [sq \in Squares |-> rayNorth[sq] \cup raySouth[sq] \cup rayEast[sq] \cup rayWest[sq]]

\* a ray without its last square, the one on the edge of the board
Inner(ray, sq) ==
    IF ray = {} THEN {}
    ELSE ray \ {IF Max(ray) > sq THEN Max(ray) ELSE Min(ray)}

bishopBlockers ==
    [sq \in Squares |->
        Inner(rayNorthEast[sq], sq) \cup Inner(rayNorthWest[sq], sq)
        \cup Inner(raySouthEast[sq], sq) \cup Inner(raySouthWest[sq], sq)]

rookBlockers ==
    [sq \in Squares |->
        Inner(rayNorth[sq], sq) \cup Inner(raySouth[sq], sq)
        \cup Inner(rayEast[sq], sq) \cup Inner(rayWest[sq], sq)]

\* "if (blockers) moves &= ~ray[first blocker]": the squares one ray loses
Shadow(ray, square, allPieces, lsb) ==
    LET blockers == ray[square] \cap allPieces
    IN  IF blockers # {} THEN ray[IF lsb THEN getLSB(blockers) ELSE getMSB(blockers)] ELSE {}

bishopAttacksSlow(square, allPieces) ==
    {sq \in bishopAttacks[square] :
        /\ sq \notin Shadow(rayNorthEast, square, allPieces, TRUE)
        /\ sq \notin Shadow(rayNorthWest, square, allPieces, TRUE)
        /\ sq \notin Shadow(raySouthEast, square, allPieces, FALSE)
        /\ sq \notin Shadow(raySouthWest, square, allPieces, FALSE)}

rookAttacksSlow(square, allPieces) ==
    {sq \in rookAttacks[square] :
        /\ sq \notin Shadow(rayNorth, square, allPieces, TRUE)
        /\ sq \notin Shadow(raySouth, square, allPieces, FALSE)
        /\ sq \notin Shadow(rayEast, square, allPieces, TRUE)
        /\ sq \notin Shadow(rayWest, square, allPieces, FALSE)}

\* bishopAttackTable[sq][index of blockers]: zero until initializeBishopAttackTable
\* has stored bishopAttacksSlow(sq, blockers) for every subset of bishopBlockers[sq]
getBishopAttacks(sq, allPieces) ==
    IF attackTablesInit THEN bishopAttacksSlow(sq, allPieces \cap bishopBlockers[sq]) ELSE {}

getRookAttacks(sq, allPieces) ==
    IF attackTablesInit THEN rookAttacksSlow(sq, allPieces \cap rookBlockers[sq]) ELSE {}

getQueenAttacks(sq, allPieces) ==
    getBishopAttacks(sq, allPieces) \cup getRookAttacks(sq, allPieces)

(***************************************************************************)
(* The leaper attacks (attack.h declares them; their definitions are not   *)
(* among the sources, so they follow the shifts and masks of the design).  *)
(***************************************************************************)
getKingAttacks(king) ==
    ShiftLeft(king, 8) \cup ShiftRight(king, 8)
    \cup ((ShiftLeft(king, 1) \cup ShiftRight(king, 7) \cup ShiftLeft(king, 9)) \ FileA)
    \cup ((ShiftRight(king, 1) \cup ShiftLeft(king, 7) \cup ShiftRight(king, 9)) \ FileH)

knightAttacksOf(knights) ==
    ((ShiftLeft(knights, 17) \cup ShiftRight(knights, 15)) \ FileA)
    \cup ((ShiftLeft(knights, 15) \cup ShiftRight(knights, 17)) \ FileH)
    \cup ((ShiftLeft(knights, 10) \cup ShiftRight(knights, 6)) \ (FileA \cup FileB))
    \cup ((ShiftLeft(knights, 6) \cup ShiftRight(knights, 10)) \ (FileG \cup FileH))

knightAttackTable == [sq \in Squares |-> knightAttacksOf({sq})]

getKnightAttacks(square) == knightAttackTable[square]

getWhitePawnAttacksLeft(pawns) == ShiftLeft(pawns, 7) \ FileH

getWhitePawnAttacksRight(pawns) == ShiftLeft(pawns, 9) \ FileA

getBlackPawnAttacksLeft(pawns) == ShiftRight(pawns, 7) \ FileA

getBlackPawnAttacksRight(pawns) == ShiftRight(pawns, 9) \ FileH

(***************************************************************************)
(* HashKey.cpp.  The key of a feature is 0 until initHashKeys has run.     *)
(***************************************************************************)
getSideKey == IF hash_keys_initialized THEN {768} ELSE {}

getPieceKey(piece, square) == IF hash_keys_initialized THEN {piece * 64 + square} ELSE {}

getCastleKey(castlePerm) == IF hash_keys_initialized THEN {769 + castlePerm} ELSE {}

getEnPassantKey(square) == IF hash_keys_initialized THEN {785 + square} ELSE {}


(***************************************************************************)
(* board.cpp: the Position and its operations.  A Position is a record of  *)
(* the fields of class Board; every operation maps a Position to the       *)
(* Position it leaves.                                                     *)
(***************************************************************************)
PrevMove(m, c, f, e, p) ==
    [move |-> m, castlePerms |-> c, fiftyMoveCount |-> f, enPassantSquare |-> e,
     positionKey |-> p]

generatePositionKey(b) ==
    LET keys == [i \in 0..66 |->
                    IF i < 64
                    THEN (IF b.pieces[i] # NO_PIECE THEN getPieceKey(b.pieces[i], i) ELSE {})
                    ELSE IF i = 64 THEN (IF b.sideToMove = WHITE THEN getSideKey ELSE {})
                    ELSE IF i = 65 THEN getCastleKey(b.castlePerms)
                    ELSE IF b.enPassantSquare # INVALID
                         THEN getEnPassantKey(b.enPassantSquare) ELSE {}]
    IN  {t \in UNION {keys[i] : i \in 0..66} :
            Cardinality({i \in 0..66 : t \in keys[i]}) % 2 = 1}

addPiece(b, square, piece) ==
    LET mask == {square}
    IN  [b EXCEPT !.pieces[square] = piece,
                  !.pieceBitboards[piece] = Xor(@, mask),
                  !.colorBitboards[pieceColor[piece]] = Xor(@, mask),
                  !.colorBitboards[BOTH_COLORS] = Xor(@, mask),
                  !.material[pieceColor[piece]] = @ + pieceMaterial[piece],
                  !.positionKey = Xor(@, getPieceKey(piece, square))]

\* clearPiece without the material update (a seeded fault)
clearPieceKeepMaterial(b, square) ==
    LET piece == b.pieces[square]
        mask == {square}
    IN  [b EXCEPT !.pieces[square] = NO_PIECE,
                  !.pieceBitboards[piece] = Xor(@, mask),
                  !.colorBitboards[pieceColor[piece]] = Xor(@, mask),
                  !.colorBitboards[BOTH_COLORS] = Xor(@, mask),
                  !.positionKey = Xor(@, getPieceKey(piece, square))]

clearPiece(b, square) ==
    LET piece == b.pieces[square]
        mask == {square}
    IN  [b EXCEPT !.pieces[square] = NO_PIECE,
                  !.pieceBitboards[piece] = Xor(@, mask),
                  !.colorBitboards[pieceColor[piece]] = Xor(@, mask),
                  !.colorBitboards[BOTH_COLORS] = Xor(@, mask),
                  !.material[pieceColor[piece]] = @ - pieceMaterial[piece],
                  !.positionKey = Xor(@, getPieceKey(piece, square))]

\* movePiece without the update of the mover's color bitboard (a seeded fault)
movePieceSkipColor(b, from, to) ==
    LET piece == b.pieces[from]
        mask == {to} \cup {from}
    IN  [b EXCEPT !.pieces[to] = piece,
                  !.pieces[from] = NO_PIECE,
                  !.pieceBitboards[piece] = Xor(@, mask),
                  !.colorBitboards[BOTH_COLORS] = Xor(@, mask),
                  !.positionKey = Xor(Xor(@, getPieceKey(piece, from)), getPieceKey(piece, to))]

movePiece(b, from, to) ==
    LET piece == b.pieces[from]
        mask == {to} \cup {from}
    IN  [b EXCEPT !.pieces[to] = piece,
                  !.pieces[from] = NO_PIECE,
                  !.pieceBitboards[piece] = Xor(@, mask),
                  !.colorBitboards[pieceColor[piece]] = Xor(@, mask),
                  !.colorBitboards[BOTH_COLORS] = Xor(@, mask),
                  !.positionKey = Xor(Xor(@, getPieceKey(piece, from)), getPieceKey(piece, to))]

\* a mutation of castlePermissions: a move to A8 keeps black's queenside right
castlePermissionsKeepA8 ==
    [sq \in Squares |->
        CASE sq = A1 -> 13 [] sq = E1 -> 12 [] sq = H1 -> 14
          [] sq = E8 -> 3  [] sq = H8 -> 11
          [] OTHER -> 15]

castlePermissions ==
    [sq \in Squares |->
        CASE sq = A1 -> 13 [] sq = E1 -> 12 [] sq = H1 -> 14
          [] sq = A8 -> 7  [] sq = E8 -> 3  [] sq = H8 -> 11
          [] OTHER -> 15]

\* the fields of a packed move
MoveFrom(move) == move % 64

MoveTo(move) == (move \div 64) % 64

MoveCaptured(move) == (move \div 4096) % 16

MovePromoted(move) == (move \div 65536) % 16

\* move & MOVE_FLAGS
MoveFlags(move) == ((move \div 1048576) % 32) * 1048576

\* move & flag != 0, for one flag bit
HasFlag(move, flag) == (move \div flag) % 2 = 1

reset(b) ==
    LET r == [b EXCEPT
                !.pieceBitboards =
                    [p \in Pieces |-> {sq \in Squares : defaultPieces[sq] = p}],
                !.colorBitboards =
                    [c \in 0..2 |-> CASE c = WHITE -> 0..15 [] c = BLACK -> 48..63
                                      [] OTHER -> (0..15) \cup (48..63)],
                !.pieces = defaultPieces,
                !.sideToMove = WHITE,
                !.castlePerms = 15,
                !.enPassantSquare = INVALID,
                !.ply = 0, !.searchPly = 0, !.fiftyMoveCount = 0,
                !.material = [c \in {WHITE, BLACK} |-> startingMaterial]]
    IN  [r EXCEPT !.positionKey = generatePositionKey(r),
                  !.history = <<>>,
                  !.hasCastled = [c \in {WHITE, BLACK} |-> FALSE]]

squaresAttacked(b, squares, side) ==
    LET pb == b.pieceBitboards
        leapers ==
            IF side = WHITE
            THEN getKingAttacks(pb[WHITE_KING])
                 \cup getWhitePawnAttacksLeft(pb[WHITE_PAWN])
                 \cup getWhitePawnAttacksRight(pb[WHITE_PAWN])
            ELSE getKingAttacks(pb[BLACK_KING])
                 \cup getBlackPawnAttacksLeft(pb[BLACK_PAWN])
                 \cup getBlackPawnAttacksRight(pb[BLACK_PAWN])
        knights == pb[pieceType[side][KNIGHT]]
        bishops == pb[pieceType[side][BISHOP]]
        rooks == pb[pieceType[side][ROOK]]
        queens == pb[pieceType[side][QUEEN]]
        allPieces == b.colorBitboards[BOTH_COLORS]
        attacks ==
            leapers
            \cup UNION {getKnightAttacks(sq) : sq \in knights}
            \cup UNION {getBishopAttacks(sq, allPieces) : sq \in bishops}
            \cup UNION {getRookAttacks(sq, allPieces) : sq \in rooks}
            \cup UNION {getQueenAttacks(sq, allPieces) : sq \in queens}
    IN  (attacks \cap squares) # {}

undoMove(b) ==
    LET last == b.history[Len(b.history)]
        move == last.move
        from == MoveFrom(move)
        to == MoveTo(move)
        side == 1 - b.sideToMove
        repawn(x) == addPiece(clearPiece(x, from), from, pieceType[side][PAWN])
        uncastle(x) == [x EXCEPT !.hasCastled[side] = FALSE]
        restore(x) ==
            CASE MoveFlags(move) = CAPTURE_FLAG -> addPiece(x, to, MoveCaptured(move))
              [] MoveFlags(move) = CAPTURE_AND_PROMOTION_FLAG ->
                     repawn(addPiece(x, to, MoveCaptured(move)))
              [] MoveFlags(move) = PROMOTION_FLAG -> repawn(x)
              [] MoveFlags(move) = CASTLE_FLAG ->
                     uncastle(CASE to = G1 -> movePiece(x, F1, H1)
                                [] to = C1 -> movePiece(x, D1, A1)
                                [] to = G8 -> movePiece(x, F8, H8)
                                [] to = C8 -> movePiece(x, D8, A8)
                                [] OTHER -> x)
              [] MoveFlags(move) = EN_PASSANT_FLAG ->
                     addPiece(x, to + side * 16 - 8, pieceType[1 - side][PAWN])
              [] OTHER -> x
    IN  [restore(movePiece([b EXCEPT !.ply = @ - 1, !.searchPly = @ - 1,
                                     !.sideToMove = side], to, from))
            EXCEPT !.castlePerms = last.castlePerms,
                   !.fiftyMoveCount = last.fiftyMoveCount,
                   !.enPassantSquare = last.enPassantSquare,
                   !.positionKey = last.positionKey,
                   !.history = SubSeq(@, 1, Len(@) - 1)]

\* makeMove up to the legality test: the move is on the board
moveApplied(b, move) ==
    LET from == MoveFrom(move)
        to == MoveTo(move)
        side == b.sideToMove
        pushHistory(x) ==
            [x EXCEPT !.history = Append(@, PrevMove(move, x.castlePerms, x.fiftyMoveCount,
                                                     x.enPassantSquare, x.positionKey)),
                      !.ply = @ + 1, !.searchPly = @ + 1]
        clearEnPassant(x) ==
            IF x.enPassantSquare # INVALID
            THEN [x EXCEPT !.positionKey = Xor(@, getEnPassantKey(x.enPassantSquare)),
                           !.enPassantSquare = INVALID]
            ELSE x
        countFifty(x) ==
            [x EXCEPT !.fiftyMoveCount =
                IF HasFlag(move, CAPTURE_FLAG) \/ x.pieces[from] = WHITE_PAWN
                   \/ x.pieces[from] = BLACK_PAWN
                THEN 0 ELSE @ + 1]
        newPerms(x) == And4(x.castlePerms, And4(castlePermissions[from], castlePermissions[to]))
        updatePerms(x) ==
            [x EXCEPT !.positionKey = Xor(Xor(@, getCastleKey(x.castlePerms)),
                                          getCastleKey(newPerms(x))),
                      !.castlePerms = newPerms(x)]
        promote(x) == addPiece(clearPiece(x, from), from, MovePromoted(move))
        castled(x) == [x EXCEPT !.hasCastled[side] = TRUE]
        special(x) ==
            CASE MoveFlags(move) = CAPTURE_FLAG -> clearPiece(x, to)
              [] MoveFlags(move) = CAPTURE_AND_PROMOTION_FLAG -> promote(clearPiece(x, to))
              [] MoveFlags(move) = PROMOTION_FLAG -> promote(x)
              [] MoveFlags(move) = CASTLE_FLAG ->
                     castled(CASE to = G1 -> movePiece(x, H1, F1)
                               [] to = C1 -> movePiece(x, A1, D1)
                               [] to = G8 -> movePiece(x, H8, F8)
                               [] to = C8 -> movePiece(x, A8, D8)
                               [] OTHER -> x)
              [] MoveFlags(move) = PAWN_START_FLAG ->
                     [x EXCEPT !.enPassantSquare = (to + from) \div 2,
                               !.positionKey = Xor(@, getEnPassantKey((to + from) \div 2))]
              [] MoveFlags(move) = EN_PASSANT_FLAG -> clearPiece(x, to + side * 16 - 8)
              [] OTHER -> x
    IN  [movePiece(special(updatePerms(countFifty(clearEnPassant(pushHistory(b))))), from, to)
            EXCEPT !.sideToMove = 1 - side, !.positionKey = Xor(@, getSideKey)]

\* makeMove: the Position it leaves and the value it returns
makeMove(b, move) ==
    LET king == IF b.sideToMove = WHITE THEN WHITE_KING ELSE BLACK_KING
        test(a) == IF squaresAttacked(a, a.pieceBitboards[king], a.sideToMove)
                   THEN [board |-> undoMove(a), legal |-> FALSE]
                   ELSE [board |-> a, legal |-> TRUE]
    IN  test(moveApplied(b, move))

isRepetition(b) ==
    LET size == Len(b.history)
        start == size - 2
        stop == IF size - b.fiftyMoveCount > 0 THEN size - b.fiftyMoveCount ELSE 0
    IN  \E i \in stop..start :
            (start - i) % 2 = 0 /\ b.positionKey = b.history[i + 1].positionKey

getPreviousMove(b) == IF b.ply = 0 THEN INVALID ELSE b.history[Len(b.history)].move

(***************************************************************************)
(* movelist.cpp: the pseudo-legal move generator.  A move list is the      *)
(* sequence of packed moves in the order the generator adds them; a packed *)
(* move carries its move score in the bits from 25 up.                     *)
(***************************************************************************)
captureScore ==
    LET row == <<<<46, 55, 56, 59, 62, 0>>, <<40, 49, 50, 54, 61, 0>>,
                 <<39, 47, 48, 53, 60, 0>>, <<38, 44, 45, 51, 58, 0>>,
                 <<37, 41, 42, 43, 52, 0>>, <<34, 35, 36, 36, 57, 0>>>>
    IN  [a \in Pieces |-> [v \in Pieces |->
            IF pieceColor[a] = pieceColor[v] THEN 0 ELSE row[(a % 6) + 1][(v % 6) + 1]]]

moveScore == [p \in Pieces |-> 6 - (p % 6)]

promotionScore == [p \in Pieces |-> <<0, 55, 56, 59, 62, 0>>[(p % 6) + 1]]

enPassantScore == 46

castleScore == 8

pawnStartScore == 7

ScoreShift == 33554432

getMove(from, to, cap, prom, flags) ==
    from + to * 64 + (cap % 16) * 4096 + (prom % 16) * 65536 + flags

addMove(move, score) == <<move + score * ScoreShift>>

\* addPawnMove that promotes to a queen only (a seeded fault)
addPawnMoveToQueen(b, move, score) ==
    IF MoveTo(move) \in Rank1And8
    THEN addMove(move - MovePromoted(move) * 65536
                 + (IF HasFlag(move, PROMOTION_FLAG) THEN 0 ELSE PROMOTION_FLAG)
                 + pieceType[b.sideToMove][QUEEN] * 65536, promotionScore[QUEEN])
    ELSE addMove(move, score)

addPawnMove(b, move, score) ==
    IF MoveTo(move) \in Rank1And8
    THEN LET m == move - MovePromoted(move) * 65536
                  + (IF HasFlag(move, PROMOTION_FLAG) THEN 0 ELSE PROMOTION_FLAG)
         IN  addMove(m + pieceType[b.sideToMove][KNIGHT] * 65536, promotionScore[KNIGHT])
             \o addMove(m + pieceType[b.sideToMove][BISHOP] * 65536, promotionScore[BISHOP])
             \o addMove(m + pieceType[b.sideToMove][ROOK] * 65536, promotionScore[ROOK])
             \o addMove(m + pieceType[b.sideToMove][QUEEN] * 65536, promotionScore[QUEEN])
    ELSE addMove(move, score)

Range(seq) == {seq[i] : i \in 1..Len(seq)}

\* the concatenation of Op(x) for the squares x of a bitboard, least bit first
ForBits(bits, Op(_)) ==
    LET f[i \in 0..Len(bits)] == IF i = 0 THEN <<>> ELSE f[i - 1] \o Op(bits[i])
    IN  f[Len(bits)]

generatePieceMoves(b, sq, attacks) ==
    LET one(to) ==
            IF b.pieces[to] = INVALID
            THEN addMove(getMove(sq, to, INVALID, INVALID, 0), moveScore[b.pieces[sq]])
            ELSE addMove(getMove(sq, to, b.pieces[to], INVALID, CAPTURE_FLAG),
                         captureScore[b.pieces[sq]][b.pieces[to]])
    IN  ForBits(BitsOf(attacks), one)

\* the pawn captures and the en passant moves, shared by both generators
whitePawnCaptures(b) ==
    LET pawns == b.pieceBitboards[WHITE_PAWN]
        enemyPieces == b.colorBitboards[BLACK]
        attacksLeft == getWhitePawnAttacksLeft(pawns) \cap enemyPieces
        attacksRight == getWhitePawnAttacksRight(pawns) \cap enemyPieces
        left(to) == addPawnMove(b, getMove(to - 7, to, b.pieces[to], INVALID, CAPTURE_FLAG),
                                captureScore[WHITE_PAWN][b.pieces[to]])
        right(to) == addPawnMove(b, getMove(to - 9, to, b.pieces[to], INVALID, CAPTURE_FLAG),
                                 captureScore[WHITE_PAWN][b.pieces[to]])
    IN  ForBits(BitsOf(attacksLeft), left) \o ForBits(BitsOf(attacksRight), right)

whiteEnPassantMoves(b) ==
    LET ep == b.enPassantSquare
    IN  IF ep = INVALID THEN <<>>
        ELSE (IF ep # 47 /\ ep - 7 \in Squares /\ b.pieces[ep - 7] = WHITE_PAWN
              THEN addMove(getMove(ep - 7, ep, INVALID, INVALID, EN_PASSANT_FLAG), enPassantScore)
              ELSE <<>>)
             \o (IF ep # 40 /\ ep - 9 \in Squares /\ b.pieces[ep - 9] = WHITE_PAWN
                 THEN addMove(getMove(ep - 9, ep, INVALID, INVALID, EN_PASSANT_FLAG),
                              enPassantScore)
                 ELSE <<>>)

blackPawnCaptures(b) ==
    LET pawns == b.pieceBitboards[BLACK_PAWN]
        enemyPieces == b.colorBitboards[WHITE]
        attacksLeft == getBlackPawnAttacksLeft(pawns) \cap enemyPieces
        attacksRight == getBlackPawnAttacksRight(pawns) \cap enemyPieces
        left(to) == addPawnMove(b, getMove(to + 7, to, b.pieces[to], INVALID, CAPTURE_FLAG),
                                captureScore[BLACK_PAWN][b.pieces[to]])
        right(to) == addPawnMove(b, getMove(to + 9, to, b.pieces[to], INVALID, CAPTURE_FLAG),
                                 captureScore[BLACK_PAWN][b.pieces[to]])
    IN  ForBits(BitsOf(attacksLeft), left) \o ForBits(BitsOf(attacksRight), right)

blackEnPassantMoves(b) ==
    LET ep == b.enPassantSquare
    IN  IF ep = INVALID THEN <<>>
        ELSE (IF ep # 16 /\ ep + 7 \in Squares /\ b.pieces[ep + 7] = BLACK_PAWN
              THEN addMove(getMove(ep + 7, ep, INVALID, INVALID, EN_PASSANT_FLAG), enPassantScore)
              ELSE <<>>)
             \o (IF ep # 23 /\ ep + 9 \in Squares /\ b.pieces[ep + 9] = BLACK_PAWN
                 THEN addMove(getMove(ep + 9, ep, INVALID, INVALID, EN_PASSANT_FLAG),
                              enPassantScore)
                 ELSE <<>>)

generateWhitePawnCaptureMoves(b) == whitePawnCaptures(b) \o whiteEnPassantMoves(b)

generateBlackPawnCaptureMoves(b) == blackPawnCaptures(b) \o blackEnPassantMoves(b)

generateWhitePawnMoves(b) ==
    LET allPieces == b.colorBitboards[BOTH_COLORS]
        pawns == b.pieceBitboards[WHITE_PAWN]
        pawnMoves == ShiftLeft(pawns, 8) \ allPieces
        pawnStarts == ShiftLeft(pawnMoves \cap 16..23, 8) \ allPieces
        push(to) == addPawnMove(b, getMove(to - 8, to, INVALID, INVALID, 0),
                                moveScore[WHITE_PAWN])
        start(to) == addMove(getMove(to - 16, to, INVALID, INVALID, PAWN_START_FLAG),
                             pawnStartScore)
    IN  ForBits(BitsOf(pawnMoves), push) \o whitePawnCaptures(b)
        \o ForBits(BitsOf(pawnStarts), start) \o whiteEnPassantMoves(b)

generateBlackPawnMoves(b) ==
    LET allPieces == b.colorBitboards[BOTH_COLORS]
        pawns == b.pieceBitboards[BLACK_PAWN]
        pawnMoves == ShiftRight(pawns, 8) \ allPieces
        pawnStarts == ShiftRight(pawnMoves \cap 40..47, 8) \ allPieces
        push(to) == addPawnMove(b, getMove(to + 8, to, INVALID, INVALID, 0),
                                moveScore[BLACK_PAWN])
        start(to) == addMove(getMove(to + 16, to, INVALID, INVALID, PAWN_START_FLAG),
                             pawnStartScore)
    IN  ForBits(BitsOf(pawnMoves), push) \o blackPawnCaptures(b)
        \o ForBits(BitsOf(pawnStarts), start) \o blackEnPassantMoves(b)

generateWhiteCastleMoves(b) ==
    LET allPieces == b.colorBitboards[BOTH_COLORS]
    IN  (IF HasBit(b.castlePerms, CASTLE_WK) /\ allPieces \cap {F1, G1} = {}
            /\ ~squaresAttacked(b, {E1, F1, G1}, BLACK)
         THEN addMove(getMove(E1, G1, INVALID, INVALID, CASTLE_FLAG), castleScore) ELSE <<>>)
        \o (IF HasBit(b.castlePerms, CASTLE_WQ) /\ allPieces \cap {1, C1, D1} = {}
               /\ ~squaresAttacked(b, {C1, D1, E1}, BLACK)
            THEN addMove(getMove(E1, C1, INVALID, INVALID, CASTLE_FLAG), castleScore)
            ELSE <<>>)

generateBlackCastleMoves(b) ==
    LET allPieces == b.colorBitboards[BOTH_COLORS]
    IN  (IF HasBit(b.castlePerms, CASTLE_BK) /\ allPieces \cap {F8, G8} = {}
            /\ ~squaresAttacked(b, {E8, F8, G8}, WHITE)
         THEN addMove(getMove(E8, G8, INVALID, INVALID, CASTLE_FLAG), castleScore) ELSE <<>>)
        \o (IF HasBit(b.castlePerms, CASTLE_BQ) /\ allPieces \cap {57, C8, D8} = {}
               /\ ~squaresAttacked(b, {C8, D8, E8}, WHITE)
            THEN addMove(getMove(E8, C8, INVALID, INVALID, CASTLE_FLAG), castleScore)
            ELSE <<>>)

\* the moves of the knights, bishops, rooks, queens and king onto the squares of target
pieceMovesOnto(b, target) ==
    LET side == b.sideToMove
        pb == b.pieceBitboards
        allPieces == b.colorBitboards[BOTH_COLORS]
        knight(sq) == generatePieceMoves(b, sq, getKnightAttacks(sq) \cap target)
        bishop(sq) == generatePieceMoves(b, sq, getBishopAttacks(sq, allPieces) \cap target)
        rook(sq) == generatePieceMoves(b, sq, getRookAttacks(sq, allPieces) \cap target)
        queen(sq) == generatePieceMoves(b, sq, getQueenAttacks(sq, allPieces) \cap target)
        king == pb[pieceType[side][KING]]
    IN  ForBits(BitsOf(pb[pieceType[side][KNIGHT]]), knight)
        \o ForBits(BitsOf(pb[pieceType[side][BISHOP]]), bishop)
        \o ForBits(BitsOf(pb[pieceType[side][ROOK]]), rook)
        \o ForBits(BitsOf(pb[pieceType[side][QUEEN]]), queen)
        \o generatePieceMoves(b, getLSB(king), getKingAttacks(king) \cap target)

generateMoves(b) ==
    (IF b.sideToMove = WHITE
     THEN generateWhitePawnMoves(b) \o generateWhiteCastleMoves(b)
     ELSE generateBlackPawnMoves(b) \o generateBlackCastleMoves(b))
    \o pieceMovesOnto(b, Squares \ b.colorBitboards[b.sideToMove])

generateCaptureMoves(b) ==
    (IF b.sideToMove = WHITE
     THEN generateWhitePawnCaptureMoves(b)
     ELSE generateBlackPawnCaptureMoves(b))
    \o pieceMovesOnto(b, b.colorBitboards[1 - b.sideToMove])

(***************************************************************************)
(* boardstring.cpp: FEN parsing and move strings.  A string is the         *)
(* sequence of its characters, each a one-character string.                *)
(***************************************************************************)
START_POS ==
    <<"r", "n", "b", "q", "k", "b", "n", "r", "/",
      "p", "p", "p", "p", "p", "p", "p", "p", "/",
      "8", "/", "8", "/", "8", "/", "8", "/",
      "P", "P", "P", "P", "P", "P", "P", "P", "/",
      "R", "N", "B", "Q", "K", "B", "N", "R",
      " ", "w", " ", "K", "Q", "k", "q", " ", "-", " ", "0", " ", "1">>

Digits == {"0", "1", "2", "3", "4", "5", "6", "7", "8", "9"}

DigitValue ==
    [c \in Digits |-> CASE c = "0" -> 0 [] c = "1" -> 1 [] c = "2" -> 2 [] c = "3" -> 3
                        [] c = "4" -> 4 [] c = "5" -> 5 [] c = "6" -> 6 [] c = "7" -> 7
                        [] c = "8" -> 8 [] OTHER -> 9]

FileLetters == {"a", "b", "c", "d", "e", "f", "g", "h"}

FileValue ==
    [c \in FileLetters |-> CASE c = "a" -> 0 [] c = "b" -> 1 [] c = "c" -> 2 [] c = "d" -> 3
                             [] c = "e" -> 4 [] c = "f" -> 5 [] c = "g" -> 6 [] OTHER -> 7]

PieceLetters == {"P", "N", "B", "R", "Q", "K", "p", "n", "b", "r", "q", "k"}

PieceOfChar ==
    [c \in PieceLetters |->
        CASE c = "P" -> WHITE_PAWN [] c = "N" -> WHITE_KNIGHT [] c = "B" -> WHITE_BISHOP
          [] c = "R" -> WHITE_ROOK [] c = "Q" -> WHITE_QUEEN [] c = "K" -> WHITE_KING
          [] c = "p" -> BLACK_PAWN [] c = "n" -> BLACK_KNIGHT [] c = "b" -> BLACK_BISHOP
          [] c = "r" -> BLACK_ROOK [] c = "q" -> BLACK_QUEEN [] OTHER -> BLACK_KING]

pieceChar == <<"p", "n", "b", "r", "q", "k", "p", "n", "b", "r", "q", "k">>

split(str, delim) ==
    LET cuts == {0} \cup {i \in 1..Len(str) : str[i] = delim} \cup {Len(str) + 1}
        cut(k) == CHOOSE x \in cuts : Cardinality({y \in cuts : y < x}) = k - 1
    IN  [k \in 1..(Cardinality(cuts) - 1) |-> SubSeq(str, cut(k) + 1, cut(k + 1) - 1)]

containsOnly(str, chars) == \A i \in 1..Len(str) : str[i] \in chars

\* std::stoi on a string without leading white space: an optional sign and
\* the longest run of decimal digits after it are converted; it throws
\* std::invalid_argument when there is no digit and std::out_of_range when
\* the value does not fit an int
stoi(str) ==
    LET negative == str # <<>> /\ str[1] = "-"
        sign == IF str # <<>> /\ str[1] \in {"-", "+"} THEN 1 ELSE 0
        add(prev, digit) ==
            IF negative
            THEN (IF prev.value < -214748364 \/ (prev.value = -214748364 /\ digit > 8)
                  THEN [prev EXCEPT !.throws = TRUE, !.value = 0]
                  ELSE [prev EXCEPT !.value = @ * 10 - digit, !.digits = @ + 1])
            ELSE (IF prev.value > 214748364 \/ (prev.value = 214748364 /\ digit > 7)
                  THEN [prev EXCEPT !.throws = TRUE, !.value = 0]
                  ELSE [prev EXCEPT !.value = @ * 10 + digit, !.digits = @ + 1])
        read(prev, c) ==
            IF prev.throws \/ prev.ended THEN prev
            ELSE IF c \notin Digits THEN [prev EXCEPT !.ended = TRUE]
            ELSE add(prev, DigitValue[c])
        f[i \in sign..Len(str)] ==
            IF i = sign THEN [value |-> 0, throws |-> FALSE, digits |-> 0, ended |-> FALSE]
            ELSE read(f[i - 1], str[i])
        result(last) ==
            [value |-> last.value, throws |-> last.throws \/ last.digits = 0]
    IN  result(f[Len(str)])

possibleCastlePerms ==
    [i \in 0..15 |->
        IF i = 0 THEN <<"-">>
        ELSE (IF HasBit(i, CASTLE_WK) THEN <<"K">> ELSE <<>>)
             \o (IF HasBit(i, CASTLE_WQ) THEN <<"Q">> ELSE <<>>)
             \o (IF HasBit(i, CASTLE_BK) THEN <<"k">> ELSE <<>>)
             \o (IF HasBit(i, CASTLE_BQ) THEN <<"q">> ELSE <<>>)]

\* one row of the piece layout written into pieces[] from square on
fenRow(pieces, rowStr, square) ==
    LET f[i \in 0..Len(rowStr)] ==
            IF i = 0 THEN [pieces |-> pieces, square |-> square]
            ELSE LET st == f[i - 1]
                     c == rowStr[i]
                 IN  IF c \in PieceLetters
                     THEN [pieces |-> [st.pieces EXCEPT ![st.square] = PieceOfChar[c]],
                           square |-> st.square + 1]
                     ELSE [pieces |-> [sq \in Squares |->
                                          IF sq >= st.square /\ sq < st.square + DigitValue[c]
                                          THEN NO_PIECE ELSE st.pieces[sq]],
                           square |-> st.square + DigitValue[c]]
    IN  f[Len(rowStr)].pieces

rowCount(rowStr) ==
    LET f[i \in 0..Len(rowStr)] ==
            IF i = 0 THEN 0
            ELSE f[i - 1] + (IF rowStr[i] \in Digits /\ DigitValue[rowStr[i]] \in 1..8
                             THEN DigitValue[rowStr[i]] ELSE 1)
    IN  f[Len(rowStr)]

\* the piece layout loop: rows are written until the first row of a wrong width
fenLayout(pieces, rows) ==
    LET f[row \in 0..8] ==
            IF row = 0 THEN [pieces |-> pieces, ok |-> TRUE]
            ELSE LET st == f[row - 1]
                 IN  IF ~st.ok \/ rowCount(rows[row]) # 8 THEN [st EXCEPT !.ok = FALSE]
                     ELSE [st EXCEPT !.pieces = fenRow(st.pieces, rows[row], (8 - row) * 8)]
    IN  f[8]

\* the last part of setToFEN: the redundant fields recomputed from pieces[]
fenRecompute(b) ==
    LET r == [b EXCEPT
                !.pieceBitboards = [p \in Pieces |-> {sq \in Squares : b.pieces[sq] = p}],
                !.colorBitboards =
                    [c \in 0..2 |->
                        {sq \in Squares : b.pieces[sq] # NO_PIECE
                                          /\ (c = BOTH_COLORS \/ pieceColor[b.pieces[sq]] = c)}],
                !.material =
                    [c \in {WHITE, BLACK} |->
                        LET f[n \in 0..64] ==
                                IF n = 0 THEN 0
                                ELSE f[n - 1] + (IF b.pieces[n - 1] # NO_PIECE
                                                    /\ pieceColor[b.pieces[n - 1]] = c
                                                 THEN pieceMaterial[b.pieces[n - 1]] ELSE 0)
                        IN  f[64]]]
    IN  [r EXCEPT !.positionKey = generatePositionKey(r)]

\* setToFEN: the board it leaves and what it returns ("true", "false" or "throws")
setToFEN(b, fen) ==
    LET tokens == split(fen, " ")
        rows == split(tokens[1], "/")
        layout == fenLayout(b.pieces, rows)
        b1 == [b EXCEPT !.pieces = layout.pieces]
        b2 == [b1 EXCEPT !.sideToMove = IF tokens[2] = <<"w">> THEN WHITE ELSE BLACK]
        matches == {i \in 0..15 : possibleCastlePerms[i] = tokens[3]}
        b3 == [b2 EXCEPT !.castlePerms = IF matches = {} THEN @ ELSE Max(matches)]
        epOk == tokens[4] = <<"-">>
                \/ (Len(tokens[4]) = 2 /\ tokens[4][1] \in FileLetters
                    /\ tokens[4][2] \in {"3", "6"})
        b4 == [b3 EXCEPT !.enPassantSquare =
                  IF tokens[4] = <<"-">> THEN INVALID
                  ELSE FileValue[tokens[4][1]] + (DigitValue[tokens[4][2]] - 1) * 8]
        b5 == [b4 EXCEPT !.fiftyMoveCount = stoi(tokens[5]).value]
        fail(bb) == [board |-> bb, result |-> "false"]
    IN  IF fen = START_POS THEN [board |-> reset(b), result |-> "true"]
        ELSE IF Len(tokens) # 6 THEN fail(b)
        ELSE IF ~containsOnly(tokens[1], PieceLetters \cup {"/"} \cup (Digits \ {"0", "9"}))
             THEN fail(b)
        ELSE IF Len(rows) # 8 THEN fail(b)
        ELSE IF ~layout.ok THEN fail(b1)
        ELSE IF tokens[2] \notin {<<"w">>, <<"b">>} THEN fail(b1)
        ELSE IF b3.castlePerms = INVALID THEN fail(b3)
        ELSE IF ~epOk THEN fail(b3)
        ELSE IF ~containsOnly(tokens[5], Digits) THEN fail(b4)
        ELSE IF stoi(tokens[5]).throws THEN [board |-> b4, result |-> "throws"]
        ELSE IF b5.fiftyMoveCount > 100 THEN fail(b5)
        ELSE IF ~containsOnly(tokens[6], Digits) THEN fail(b5)
        ELSE [board |-> fenRecompute(b5), result |-> "true"]

fileChars == <<"a", "b", "c", "d", "e", "f", "g", "h">>

rankChars == <<"1", "2", "3", "4", "5", "6", "7", "8">>

\* Board::getMoveString.  pieceChar has NUM_PIECE_TYPES entries: for a larger
\* index the read is out of bounds and yields the character beyond
getMoveString(move, beyond) ==
    <<fileChars[(MoveFrom(move) % 8) + 1], rankChars[(MoveFrom(move) \div 8) + 1],
      fileChars[(MoveTo(move) % 8) + 1], rankChars[(MoveTo(move) \div 8) + 1]>>
    \o (IF HasFlag(move, PROMOTION_FLAG)
        THEN <<IF MovePromoted(move) < NUM_PIECE_TYPES
               THEN pieceChar[MovePromoted(move) + 1] ELSE beyond>>
        ELSE <<>>)

(***************************************************************************)
(* table.cpp: the transposition table.  The slot of a key is key modulo    *)
(* the table size; the model gives distinct keys distinct slots, so the    *)
(* table is the set of the entries stored, at most one per key, and every  *)
(* other slot holds the zero entry that initialize() creates.              *)
(***************************************************************************)
EXACT == 0

UPPER_BOUND == 1

LOWER_BOUND == 2

EntryBytes == 16

\* static_cast<short>
Short(n) == ((n + 32768) % 65536) - 32768

Entry(key, move, eval, depth, type) ==
    [key |-> key, move |-> move, eval |-> Short(eval), depth |-> depth % 256, type |-> type]

TranspositionTable == [sizeInMB |-> -1, initialized |-> FALSE, size |-> 0, entries |-> {}]

setSize(t, size) == [t EXCEPT !.sizeInMB = size, !.initialized = FALSE]

\* initialize that creates the vector anew at every call (a seeded fault)
initializeTableAnew(t) ==
    [t EXCEPT !.size = (t.sizeInMB * 1048576) \div EntryBytes,
              !.entries = {}, !.initialized = TRUE]

initializeTable(t) ==
    IF ~t.initialized
    THEN [t EXCEPT !.size = (t.sizeInMB * 1048576) \div EntryBytes,
                   !.entries = {}, !.initialized = TRUE]
    ELSE t

\* table[index] for the slot of key
slot(t, key) ==
    IF \E e \in t.entries : e.key = key
    THEN CHOOSE e \in t.entries : e.key = key
    ELSE Entry({}, 0, 0, 0, EXACT)

store(t, key, move, eval, depth, type) ==
    [t EXCEPT !.entries = {e \in @ \cup {Entry(key, move, eval, depth, type)} :
                               e.key # key \/ e = Entry(key, move, eval, depth, type)}]

\* retrieve that hands out the stored score on every usable entry (a seeded
\* fault)
retrieveStoredEval(t, key, depth, alpha, beta, bestMove, eval) ==
    LET entry == slot(t, key)
    IN  IF key = entry.key
        THEN IF entry.depth >= depth
                /\ \/ entry.type = EXACT
                   \/ entry.type = LOWER_BOUND /\ entry.eval >= beta
                   \/ entry.type = UPPER_BOUND /\ entry.eval <= alpha
             THEN [hit |-> TRUE, bestMove |-> entry.move, eval |-> entry.eval]
             ELSE [hit |-> FALSE, bestMove |-> entry.move, eval |-> eval]
        ELSE [hit |-> FALSE, bestMove |-> bestMove, eval |-> eval]

\* retrieve: the value returned and the two reference arguments when it returns
retrieve(t, key, depth, alpha, beta, bestMove, eval) ==
    LET entry == slot(t, key)
        found(x) == [hit |-> TRUE, bestMove |-> entry.move, eval |-> x]
    IN  IF key = entry.key
        THEN IF entry.depth >= depth /\ entry.type = EXACT THEN found(entry.eval)
             ELSE IF entry.depth >= depth /\ entry.type = LOWER_BOUND /\ entry.eval >= beta
             THEN found(beta)
             ELSE IF entry.depth >= depth /\ entry.type = UPPER_BOUND /\ entry.eval <= alpha
             THEN found(alpha)
             ELSE [hit |-> FALSE, bestMove |-> entry.move, eval |-> eval]
        ELSE [hit |-> FALSE, bestMove |-> bestMove, eval |-> eval]

retrieveMove(t, key) == IF slot(t, key).key = key THEN slot(t, key).move ELSE INVALID

(***************************************************************************)
(* movelist.cpp: move ordering                                             *)
(***************************************************************************)
MAX_SEARCH_DEPTH == 128

killerScore1 == 33

killerScore2 == 32

historyScore == 9

sameMove(m1, m2) == m1 % ScoreShift = m2 % ScoreShift

\* (move & 0x01FFFFFF) | (score << 25) in a 32-bit int
withScore(move, score) == (move % ScoreShift) + (((score + 64) % 128) - 64) * ScoreShift

\* move | 0x7E000000
withTopScore(move) ==
    (move % ScoreShift)
    + ((move \div ScoreShift) - ((move \div ScoreShift) % 64) + 63) * ScoreShift

\* std::sort by descending score, which for the short lists of the model is
\* an insertion sort: moves of equal score keep their order
sortMoves(moves) ==
    LET score(i) == moves[i] \div ScoreShift
        rank(i) == Cardinality({j \in 1..Len(moves) :
                        score(j) > score(i) \/ (score(j) = score(i) /\ j < i)}) + 1
    IN  [k \in 1..Len(moves) |-> moves[CHOOSE i \in 1..Len(moves) : rank(i) = k]]

orderMoves(moves, b, bestMove, killers, history) ==
    LET rescore(move) ==
            IF sameMove(move, bestMove) THEN withTopScore(move)
            ELSE IF sameMove(move, killers[b.searchPly][1]) THEN withScore(move, killerScore1)
            ELSE IF sameMove(move, killers[b.searchPly][2]) THEN withScore(move, killerScore2)
            ELSE IF ~HasFlag(move, CAPTURE_FLAG) /\ ~HasFlag(move, EN_PASSANT_FLAG)
                    /\ history[b.pieces[MoveFrom(move)]][MoveTo(move)] > 0
            THEN withScore(move, historyScore
                                 + history[b.pieces[MoveFrom(move)]][MoveTo(move)])
            ELSE move
    IN  sortMoves([k \in 1..Len(moves) |-> rescore(moves[k])])

(***************************************************************************)
(* engine.cpp                                                              *)
(***************************************************************************)
INF == 1000000000

MATE == 30000

\* a uint64 of the clock, as its four 16-bit limbs, the lowest first
Zero64 == <<0, 0, 0, 0>>

\* uint64 + int: the int is converted to uint64 and the sum is taken modulo
\* 2^64
Add64(v, n) ==
    LET limb(prev, i, add) ==
            [sum |-> Append(prev.sum, (v[i] + add + prev.carry) % 65536),
             carry |-> (v[i] + add + prev.carry) \div 65536]
        f[i \in 0..4] ==
            IF i = 0 THEN [sum |-> <<>>, carry |-> 0]
            ELSE limb(f[i - 1], i, IF i = 1 THEN n % 65536
                                   ELSE IF i = 2 THEN n \div 65536
                                   ELSE 0)
    IN  f[4].sum

\* a < b on uint64
Less64(a, b) ==
    \E i \in 1..4 : a[i] < b[i] /\ \A j \in (i + 1)..4 : a[j] = b[j]

\* a SearchInfo as the constructor leaves it
SearchInfo ==
    [nodes |-> 0, stop |-> FALSE, timeSet |-> FALSE, startTime |-> Zero64,
     stopTime |-> Zero64, maxDepth |-> -1, inc |-> [c \in {WHITE, BLACK} |-> 0],
     time |-> [c \in {WHITE, BLACK} |-> -1], movetime |-> -1, movestogo |-> 30]

\* the tokens that operator>> extracts from a line
tokensOf(line) == SelectSeq(split(line, " "), LAMBDA token : token # <<>>)

\* uci_process_go on the tokens after go: the SearchInfo, and whether
\* std::stoi throws.  An extraction at the end of the line fails and leaves
\* the token as it was
uci_process_go(tokens) ==
    LET goArguments ==
            {<<"d", "e", "p", "t", "h">>, <<"w", "i", "n", "c">>, <<"b", "i", "n", "c">>,
             <<"w", "t", "i", "m", "e">>, <<"b", "t", "i", "m", "e">>,
             <<"m", "o", "v", "e", "t", "i", "m", "e">>,
             <<"m", "o", "v", "e", "s", "t", "o", "g", "o">>}
        number(prev, i, n) ==
            IF n.throws THEN [prev EXCEPT !.throws = TRUE]
            ELSE [info |-> IF tokens[i] = <<"d", "e", "p", "t", "h">>
                           THEN [prev.info EXCEPT !.maxDepth = n.value]
                           ELSE IF tokens[i] = <<"w", "i", "n", "c">>
                           THEN [prev.info EXCEPT !.inc[WHITE] = n.value]
                           ELSE IF tokens[i] = <<"b", "i", "n", "c">>
                           THEN [prev.info EXCEPT !.inc[BLACK] = n.value]
                           ELSE IF tokens[i] = <<"w", "t", "i", "m", "e">>
                           THEN [prev.info EXCEPT !.time[WHITE] = n.value]
                           ELSE IF tokens[i] = <<"b", "t", "i", "m", "e">>
                           THEN [prev.info EXCEPT !.time[BLACK] = n.value]
                           ELSE IF tokens[i] = <<"m", "o", "v", "e", "t", "i", "m", "e">>
                           THEN [prev.info EXCEPT !.movetime = n.value]
                           ELSE [prev.info EXCEPT !.movestogo = n.value],
                  throws |-> FALSE, skip |-> TRUE]
        f[i \in 0..Len(tokens)] ==
            IF i = 0 THEN [info |-> SearchInfo, throws |-> FALSE, skip |-> FALSE]
            ELSE LET read(prev) ==
                         IF prev.throws THEN prev
                         ELSE IF prev.skip THEN [prev EXCEPT !.skip = FALSE]
                         ELSE IF tokens[i] \in goArguments
                         THEN number(prev, i, stoi(tokens[IF i < Len(tokens) THEN i + 1 ELSE i]))
                         ELSE prev
                 IN  read(f[i - 1])
    IN  f[Len(tokens)]

\* uci_process_setoption on the tokens after setoption: the option name, its
\* value, and whether std::stoi throws on the value of Hash or Move Overhead
uci_process_setoption(tokens) ==
    LET join(str, token) == IF str = <<>> THEN token ELSE str \o <<" ">> \o token
        f[i \in 1..Len(tokens)] ==
            IF i = 1 THEN [name |-> <<>>, value |-> <<>>, inValue |-> FALSE]
            ELSE LET read(prev) ==
                         IF prev.inValue THEN [prev EXCEPT !.value = join(@, tokens[i])]
                         ELSE IF tokens[i] = <<"v", "a", "l", "u", "e">>
                         THEN [prev EXCEPT !.inValue = TRUE]
                         ELSE [prev EXCEPT !.name = join(@, tokens[i])]
                 IN  read(f[i - 1])
        option(last) ==
            [name |-> last.name, value |-> last.value,
             throws |-> /\ last.name \in {<<"H", "a", "s", "h">>,
                                          <<"M", "o", "v", "e", " ", "O", "v", "e", "r",
                                            "h", "e", "a", "d">>}
                        /\ stoi(last.value).throws]
    IN  IF tokens = <<>> THEN [name |-> <<>>, value |-> <<>>, throws |-> FALSE]
        ELSE option(f[Len(tokens)])

\* the inner loop of uci() on the tokens of a line, up to its first known
\* token: "ignored" when there is none, "throws" when the go or setoption
\* found there ends in an exception of std::stoi, else "command"
uciLine(tokens) ==
    LET uciCommands ==
            {<<"i", "s", "r", "e", "a", "d", "y">>,
             <<"s", "e", "t", "o", "p", "t", "i", "o", "n">>,
             <<"p", "o", "s", "i", "t", "i", "o", "n">>, <<"g", "o">>,
             <<"s", "t", "o", "p">>, <<"q", "u", "i", "t">>}
        known == {i \in 1..Len(tokens) : tokens[i] \in uciCommands}
        rest(i) == SubSeq(tokens, i + 1, Len(tokens))
        handle(i) ==
            IF tokens[i] = <<"g", "o">>
            THEN (IF uci_process_go(rest(i)).throws THEN "throws" ELSE "command")
            ELSE IF tokens[i] = <<"s", "e", "t", "o", "p", "t", "i", "o", "n">>
            THEN (IF uci_process_setoption(rest(i)).throws THEN "throws" ELSE "command")
            ELSE "command"
    IN  IF known = {} THEN "ignored" ELSE handle(Min(known))

parseMoveString(b, moveString) ==
    LET from == DigitValue[moveString[2]] * 8 - 8 + FileValue[moveString[1]]
        to == DigitValue[moveString[4]] * 8 - 8 + FileValue[moveString[3]]
        first(moveList, matches) ==
            IF matches = {} THEN INVALID ELSE moveList[Min(matches)]
        find(moveList) ==
            first(moveList,
                  {i \in 1..Len(moveList) :
                      /\ MoveFrom(moveList[i]) = from
                      /\ MoveTo(moveList[i]) = to
                      /\ \/ Len(moveString) = 4
                         \/ moveString[5] = pieceChar[MovePromoted(moveList[i]) + 1]})
    IN  find(generateMoves(b))

\* Engine::makeMoves: the Position after the moves of the list, and the
\* Positions before each move of the list that makeMove accepted.  A string
\* that matches no generated move gives INVALID, and makeMove(INVALID) indexes
\* the piece arrays out of bounds: the behaviour is undefined
makeMoves(b, moves) ==
    LET f[i \in 0..Len(moves)] ==
            IF i = 0 THEN [board |-> b, made |-> <<>>, undefined |-> FALSE]
            ELSE LET step(prev, res) ==
                         [board |-> res.board,
                          made |-> IF res.legal THEN Append(prev.made, prev.board)
                                   ELSE prev.made,
                          undefined |-> FALSE]
                     try(prev, move) ==
                         IF prev.undefined \/ move = INVALID
                         THEN [prev EXCEPT !.undefined = TRUE]
                         ELSE step(prev, makeMove(prev.board, move))
                     next(prev) ==
                         try(prev, IF prev.undefined THEN INVALID
                                   ELSE parseMoveString(prev.board, moves[i]))
                 IN  next(f[i - 1])
    IN  f[Len(moves)]

\* the move is one that the generator gives for the Position
generated(b, move) == \E m \in Range(generateMoves(b)) : sameMove(m, move)

\* Engine::getPVLine: the moves it makes (it returns their strings) and the
\* Position it leaves after undoing them.  A stored move that is not a move
\* of the position (the move 0 of a zero entry whose key 0 equals the
\* position key) makes movePiece index the piece arrays with NO_PIECE: the
\* behaviour is undefined
getPVLine(b, t, depth) ==
    LET f[i \in 0..depth] ==
            IF i = 0 THEN [board |-> b, moves |-> <<>>, more |-> TRUE, undefined |-> FALSE]
            ELSE LET follow(prev, storedMove) ==
                         IF ~prev.more \/ storedMove = INVALID
                         THEN [prev EXCEPT !.more = FALSE]
                         ELSE IF ~generated(prev.board, storedMove)
                         THEN [prev EXCEPT !.more = FALSE, !.undefined = TRUE]
                         ELSE LET played(made) ==
                                      [board |-> made.board,
                                       moves |-> IF made.legal
                                                 THEN Append(prev.moves, storedMove)
                                                 ELSE prev.moves,
                                       more |-> made.legal, undefined |-> FALSE]
                              IN  played(makeMove(prev.board, storedMove))
                     line(prev) == follow(prev, retrieveMove(t, prev.board.positionKey))
                 IN  line(f[i - 1])
        g[i \in 0..depth] == IF i = 0 THEN f[depth].board ELSE undoMove(g[i - 1])
        result(last) ==
            [moves |-> last.moves, board |-> g[Len(last.moves)],
             undefined |-> last.undefined]
    IN  result(f[depth])

(***************************************************************************)
(* The search.  The recursion of alphaBeta and quiescence is a stack of    *)
(* frames, one per call, each holding the parameters and locals of the     *)
(* call.  The search thread runs from one read of info.stop to the next    *)
(* in one step, so a step starts either on entry to a call or when a       *)
(* recursive call has returned.  An engine value e collects the members of *)
(* Engine that the search uses, the stack, the value last returned (ret)   *)
(* and where control is (mode).                                            *)
(***************************************************************************)
Frame(alpha, beta, depth) ==
    [quiescent |-> depth <= 0, alpha |-> alpha, beta |-> beta, depth |-> depth,
     moveList |-> <<>>, i |-> 0, bestMove |-> INVALID, bestEval |-> -INF,
     legalMoves |-> 0, oldAlpha |-> alpha]

Top(e) == e.stack[Len(e.stack)]

SetTop(e, f) == [e EXCEPT !.stack[Len(e.stack)] = f]

\* return value; from the call of the top frame
Return(e, value) ==
    [e EXCEPT !.stack = SubSeq(@, 1, Len(@) - 1), !.ret = value, !.mode = "return"]

\* alphaBeta(alpha, beta, depth), which is quiescence(alpha, beta) if depth <= 0
Call(e, alpha, beta, depth) ==
    [e EXCEPT !.stack = Append(@, Frame(alpha, beta, depth)), !.mode = "call"]

\* alphaBeta without the update of pvMove at the root (a seeded fault)
rootMoveKept(e, bestMove) == e.pvMove

\* pvMove = board.getSearchPly() == 0 ? bestMove : pvMove
rootMove(e, bestMove) == IF e.board.searchPly = 0 THEN bestMove ELSE e.pvMove

\* Board::evaluatePosition: the material balance plus the positional terms,
\* from the side to move.  The positional terms (piece-square tables, pawn
\* structure, mobility, king safety) are an input of the model.
evaluatePosition(b, positional) ==
    IF b.sideToMove = WHITE
    THEN b.material[WHITE] - b.material[BLACK] + positional
    ELSE -(b.material[WHITE] - b.material[BLACK] + positional)

\* quiescence from its stand-pat evaluation to the start of its move loop
quiescenceEnter(e, positional) ==
    LET standPat(f, bestEval) ==
            IF bestEval > f.alpha /\ bestEval >= f.beta
            THEN Return(e, f.beta)
            ELSE SetTop([e EXCEPT !.mode = "loop"],
                        [f EXCEPT !.alpha = IF bestEval > @ THEN bestEval ELSE @,
                                  !.moveList = orderMoves(generateCaptureMoves(e.board),
                                                   e.board, INVALID, e.searchKillers,
                                                   e.searchHistory),
                                  !.i = 1])
    IN  standPat(Top(e), evaluatePosition(e.board, positional))

\* alphaBeta from the table probe to the start of its move loop
alphaBetaEnter(e) ==
    LET probe(f, found) ==
            IF found.hit
            THEN Return([e EXCEPT !.pvMove = rootMove(e, found.bestMove)], found.eval)
            ELSE SetTop([e EXCEPT !.mode = "loop"],
                        [f EXCEPT !.bestMove = found.bestMove,
                                  !.bestEval = found.eval,
                                  !.moveList = orderMoves(generateMoves(e.board), e.board,
                                                   found.bestMove, e.searchKillers,
                                                   e.searchHistory),
                                  !.i = 1])
    IN  probe(Top(e), retrieve(e.table, e.board.positionKey, Top(e).depth, Top(e).alpha,
                               Top(e).beta, INVALID, -INF))

\* entry of alphaBeta (depth > 0) or quiescence: count the node, poll the stop
\* flag, test for a draw.  checkup() has no effect without a clock limit.
enter(e, positional) ==
    LET counted(x) ==
            IF x.info.stop \/ (x.board.searchPly > 0 /\ isRepetition(x.board))
               \/ x.board.fiftyMoveCount >= 100
            THEN Return(x, 0)
            ELSE IF Top(x).quiescent THEN quiescenceEnter(x, positional)
            ELSE alphaBetaEnter(x)
    IN  counted([e EXCEPT !.info.nodes = @ + 1])

\* a beta cutoff in alphaBeta by move, a quiet move or not
cutoff(e, move, quiet) ==
    LET sp == e.board.searchPly
        prevMove == getPreviousMove(e.board)
        prevTo == MoveTo(prevMove)
        counter(cm) ==
            IF quiet /\ prevMove # INVALID
            THEN [p \in DOMAIN cm \cup {<<e.board.pieces[prevTo], prevTo>>} |->
                     IF p = <<e.board.pieces[prevTo], prevTo>> THEN move ELSE cm[p]]
            ELSE cm
    IN  Return([e EXCEPT !.searchKillers[sp] = IF quiet THEN <<move, @[1]>> ELSE @,
                         !.counterMoves = counter(@),
                         !.table = store(@, e.board.positionKey, move, Top(e).beta,
                                         Top(e).depth, LOWER_BOUND)],
               Top(e).beta)

\* the body of alphaBeta's move loop after the recursive call for move
\* returned eval and the move is undone
alphaBetaUpdate(e, move, eval) ==
    LET quiet == ~HasFlag(move, CAPTURE_FLAG) /\ ~HasFlag(move, EN_PASSANT_FLAG)
        piece == e.board.pieces[MoveFrom(move)]
        better(x) ==
            IF eval > Top(x).alpha /\ eval >= Top(x).beta THEN cutoff(x, move, quiet)
            ELSE IF eval > Top(x).alpha
            THEN SetTop([x EXCEPT !.searchHistory[piece][MoveTo(move)] =
                                      IF quiet THEN @ + Top(x).depth * Top(x).depth ELSE @],
                        [Top(x) EXCEPT !.alpha = eval, !.i = @ + 1])
            ELSE SetTop(x, [Top(x) EXCEPT !.i = @ + 1])
    IN  IF eval > Top(e).bestEval
        THEN better(SetTop([e EXCEPT !.mode = "loop",
                                     !.pvMove = rootMove(e, move)],
                           [Top(e) EXCEPT !.legalMoves = @ + 1, !.bestEval = eval,
                                          !.bestMove = move]))
        ELSE SetTop([e EXCEPT !.mode = "loop"],
                    [Top(e) EXCEPT !.legalMoves = @ + 1, !.i = @ + 1])

\* the body of quiescence's move loop after the recursive call returned eval
quiescenceUpdate(e, eval) ==
    IF eval > Top(e).alpha /\ eval >= Top(e).beta THEN Return(e, Top(e).beta)
    ELSE SetTop([e EXCEPT !.mode = "loop"],
                [Top(e) EXCEPT !.alpha = IF eval > @ THEN eval ELSE @, !.i = @ + 1])

\* a mutation of afterChild: the stop flag is not polled after the child
afterChildUnpolled(e) ==
    LET undone(x) ==
            IF Top(x).quiescent THEN quiescenceUpdate(x, -x.ret)
            ELSE alphaBetaUpdate(x, Top(x).moveList[Top(x).i], -x.ret)
    IN  undone([e EXCEPT !.board = undoMove(@)])

\* a recursive call has returned e.ret: undo the move, poll the stop flag
afterChild(e) ==
    LET undone(x) ==
            IF x.info.stop THEN Return(x, 0)
            ELSE IF Top(x).quiescent THEN quiescenceUpdate(x, -x.ret)
            ELSE alphaBetaUpdate(x, Top(x).moveList[Top(x).i], -x.ret)
    IN  undone([e EXCEPT !.board = undoMove(@)])

\* the move loop up to its next recursive call: makeMove on each move from
\* index i on until one is legal
nextMove(e) ==
    LET f == Top(e)
        scan[k \in (f.i - 1)..Len(f.moveList)] ==
            IF k = f.i - 1 THEN [board |-> e.board, legal |-> FALSE, i |-> k]
            ELSE LET attempt(made) == [board |-> made.board, legal |-> made.legal, i |-> k]
                     tried(prev) ==
                         IF prev.legal THEN prev
                         ELSE attempt(makeMove(prev.board, f.moveList[k]))
                 IN  tried(scan[k - 1])
        recurse(last) ==
            IF last.legal
            THEN Call(SetTop([e EXCEPT !.board = last.board], [f EXCEPT !.i = last.i]),
                      -f.beta, -f.alpha, f.depth - 1)
            ELSE SetTop([e EXCEPT !.board = last.board, !.mode = "after"],
                        [f EXCEPT !.i = last.i + 1])
    IN  IF e.mode = "loop" THEN recurse(scan[Len(f.moveList)]) ELSE e

\* after the move loop
afterLoop(e) ==
    LET f == Top(e)
        king == IF e.board.sideToMove = WHITE THEN WHITE_KING ELSE BLACK_KING
    IN  IF e.mode # "after" THEN e
        ELSE IF f.quiescent THEN Return(e, f.alpha)
        ELSE IF f.legalMoves = 0
        THEN (IF squaresAttacked(e.board, e.board.pieceBitboards[king],
                                 1 - e.board.sideToMove)
              THEN Return(e, -(MATE - e.board.searchPly))
              ELSE Return(e, 0))
        ELSE IF f.alpha # f.oldAlpha
        THEN Return([e EXCEPT !.table = store(@, e.board.positionKey, f.bestMove,
                                              f.bestEval, f.depth, EXACT)], f.alpha)
        ELSE Return([e EXCEPT !.table = store(@, e.board.positionKey, f.bestMove,
                                              f.alpha, f.depth, UPPER_BOUND)], f.alpha)

\* one step of the search thread inside alphaBeta / quiescence
searchStep(e, positional) ==
    afterLoop(nextMove(IF e.mode = "call" THEN enter(e, positional) ELSE afterChild(e)))

\* Engine::setupSearch on the members of e, when currentTime() returns now.
\* The division by a movestogo of 0 is undefined
setupSearch(e, now) ==
    LET side == e.board.sideToMove
        quotient(a, b) == IF a < 0 THEN -((-a) \div b) ELSE a \div b
        movetime(x) ==
            IF x.info.movetime # -1
            THEN [x EXCEPT !.info.time[side] = x.info.movetime, !.info.movestogo = 1]
            ELSE x
        maxDepth(x) ==
            [x EXCEPT !.info.maxDepth = IF @ = -1 THEN MAX_SEARCH_DEPTH ELSE @]
        stopTime(x) ==
            [x EXCEPT !.info.stopTime =
                 Add64(Add64(Add64(x.info.startTime, x.info.time[side]),
                             x.info.inc[side]), -x.moveOverhead)]
        clock(x) ==
            IF x.info.time[side] = -1 THEN x
            ELSE IF x.info.movestogo = 0 THEN [x EXCEPT !.mode = "undefined"]
            ELSE stopTime([x EXCEPT !.info.timeSet = TRUE,
                                    !.info.time[side] = quotient(@, x.info.movestogo)])
        heuristics(x) ==
            [x EXCEPT !.board.searchPly = 0,
                      !.searchHistory = [p \in Pieces |-> [sq \in Squares |-> 0]],
                      !.searchKillers = [p \in 0..(MAX_SEARCH_DEPTH - 1) |-> <<0, 0>>]]
    IN  heuristics(clock(maxDepth(movetime(
            [e EXCEPT !.table = initializeTable(@),
                      !.pvMove = INVALID,
                      !.info.nodes = 0,
                      !.info.stop = FALSE,
                      !.info.startTime = now]))))

\* the head of searchPosition's loop: for (...; depth <= info.maxDepth; ...)
startIteration(e, depth) ==
    IF depth <= e.info.maxDepth THEN Call(e, -INF, INF, depth)
    ELSE [e EXCEPT !.mode = "bestmove"]

\* go and quit without the join of the search thread (a seeded fault)
joinSkipped(joinable, pc) == TRUE

\* the wait of the main thread before it may replace or leave the thread
\* object: if (searchThread.joinable()) searchThread.join()
joined(joinable, pc) == joinable => pc = "done"

(***************************************************************************)
(* Bounds and inputs                                                       *)
(***************************************************************************)
MaxPly == 2

\* the greatest depth of a perft
PerftDepth == 2

\* the number of command lines read from stdin
MaxCmds == 3

\* the largest depth given to go
MaxDepth == 2

\* go is sent for positions with at most this many generated moves
MaxMoves == 5

\* the values of the positional terms of the evaluation
PositionalValues == {-20, 20}

\* the characters an out-of-bounds read of pieceChar may yield
BeyondChars == {"?"}

\* what currentTime() returns at the start of a search, in milliseconds: on
\* a clock that counts from 1970 (1700000000000) and on one that counts from
\* the start of the machine (60000)
StartTimes == {<<26624, 53221, 395, 0>>, <<60000, 0, 0, 0>>}

\* the values given to option Move Overhead: its bounds and its default
Overheads == {0, 100, 5000}

\* go wtime 50
LineWtime ==
    <<"g", "o", " ", "w", "t", "i", "m", "e", " ", "5", "0">>

\* go wtime 5000 btime 5000 winc 200 binc 200
LineClocks ==
    <<"g", "o", " ", "w", "t", "i", "m", "e", " ", "5", "0", "0", "0", " ">>
    \o <<"b", "t", "i", "m", "e", " ", "5", "0", "0", "0", " ">>
    \o <<"w", "i", "n", "c", " ", "2", "0", "0", " ", "b", "i", "n", "c", " ", "2", "0", "0">>

\* go wtime 3000 btime 3000 movestogo 0
LineMovestogoZero ==
    <<"g", "o", " ", "w", "t", "i", "m", "e", " ", "3", "0", "0", "0", " ">>
    \o <<"b", "t", "i", "m", "e", " ", "3", "0", "0", "0", " ">>
    \o <<"m", "o", "v", "e", "s", "t", "o", "g", "o", " ", "0">>

\* go wtime 3000 btime 3000 movestogo 1
LineMovestogoOne ==
    <<"g", "o", " ", "w", "t", "i", "m", "e", " ", "3", "0", "0", "0", " ">>
    \o <<"b", "t", "i", "m", "e", " ", "3", "0", "0", "0", " ">>
    \o <<"m", "o", "v", "e", "s", "t", "o", "g", "o", " ", "1">>

\* go btime 4000 binc 5000 movestogo 40
LineBlackClock ==
    <<"g", "o", " ", "b", "t", "i", "m", "e", " ", "4", "0", "0", "0", " ">>
    \o <<"b", "i", "n", "c", " ", "5", "0", "0", "0", " ">>
    \o <<"m", "o", "v", "e", "s", "t", "o", "g", "o", " ", "4", "0">>

\* go movetime 200
LineMovetime ==
    <<"g", "o", " ", "m", "o", "v", "e", "t", "i", "m", "e", " ", "2", "0", "0">>

\* go depth 1
LineDepth ==
    <<"g", "o", " ", "d", "e", "p", "t", "h", " ", "1">>

\* go depth 2
LineDepthTwo ==
    <<"g", "o", " ", "d", "e", "p", "t", "h", " ", "2">>

DepthLines == {LineDepthTwo}

\* 7k/Rp4pp/p7/8/8/7p/7P/7K w - - 99 80: white mates with the rook on a8,
\* after 99 half moves without a capture or a pawn move
FenRookMate ==
    <<"7", "k", "/", "R", "p", "4", "p", "p", "/", "p", "7", "/", "8", "/", "8", "/">>
    \o <<"7", "p", "/", "7", "P", "/", "7", "K", " ", "w", " ", "-", " ", "-", " ", "9">>
    \o <<"9", " ", "8", "0">>

\* 6nk/7p/6PP/8/8/p7/P7/K7 w - - 0 1: white mates with the pawn on g7
FenPawnMate ==
    <<"6", "n", "k", "/", "7", "p", "/", "6", "P", "P", "/", "8", "/", "8", "/", "p">>
    \o <<"7", "/", "P", "7", "/", "K", "7", " ", "w", " ", "-", " ", "-", " ", "0", " ">>
    \o <<"1">>

MatePositions ==
    {[fen |-> FenRookMate, moves |-> <<>>], [fen |-> FenPawnMate, moves |-> <<>>]}

GoLines ==
    {LineWtime, LineClocks, LineMovestogoZero, LineMovestogoOne, LineBlackClock,
     LineMovetime, LineDepth}

\* option Hash: its default and the value set by setoption
DefaultHash == 256

HashValues == {64}

\* the memory of a Board before its constructor has run
BlankBoard ==
    [pieceBitboards |-> [p \in Pieces |-> {}], colorBitboards |-> [c \in 0..2 |-> {}],
     pieces |-> [sq \in Squares |-> NO_PIECE], sideToMove |-> WHITE, ply |-> 0,
     searchPly |-> 0, castlePerms |-> 0, fiftyMoveCount |-> 0,
     enPassantSquare |-> INVALID, material |-> [c \in {WHITE, BLACK} |-> 0],
     history |-> <<>>, positionKey |-> {},
     hasCastled |-> [c \in {WHITE, BLACK} |-> FALSE]]

\* r3k2r/1P6/8/8/3p4/8/4P3/R3K2R w KQkq - 0 1
FenCastle ==
    <<"r", "3", "k", "2", "r", "/", "1", "P", "6", "/", "8", "/", "8", "/",
      "3", "p", "4", "/", "8", "/", "4", "P", "3", "/", "R", "3", "K", "2", "R",
      " ", "w", " ", "K", "Q", "k", "q", " ", "-", " ", "0", " ", "1">>

\* r3k2r/4p3/8/3P4/8/8/1p6/R3K2R b KQkq - 0 1
FenCastleBlack ==
    <<"r", "3", "k", "2", "r", "/", "4", "p", "3", "/", "8", "/", "3", "P", "4", "/",
      "8", "/", "8", "/", "1", "p", "6", "/", "R", "3", "K", "2", "R",
      " ", "b", " ", "K", "Q", "k", "q", " ", "-", " ", "0", " ", "1">>

\* 4k3/8/8/8/7b/8/4r3/R2NK2R w KQ - 3 9
FenCheck ==
    <<"4", "k", "3", "/", "8", "/", "8", "/", "8", "/", "7", "b", "/", "8", "/",
      "4", "r", "3", "/", "R", "2", "N", "K", "2", "R",
      " ", "w", " ", "K", "Q", " ", "-", " ", "3", " ", "9">>

StartFens == {START_POS, FenCastle, FenCastleBlack, FenCheck}

\* the reference positions of perft after the start position
\* r3k2r/p1ppqpb1/bn2pnp1/3PN3/1p2P3/2N2Q1p/PPPBBPPP/R3K2R w KQkq - 0 1
FenKiwipete ==
    <<"r", "3", "k", "2", "r", "/", "p", "1", "p", "p", "q", "p", "b", "1", "/", "b">>
    \o <<"n", "2", "p", "n", "p", "1", "/", "3", "P", "N", "3", "/", "1", "p", "2", "P">>
    \o <<"3", "/", "2", "N", "2", "Q", "1", "p", "/", "P", "P", "P", "B", "B", "P", "P">>
    \o <<"P", "/", "R", "3", "K", "2", "R", " ", "w", " ", "K", "Q", "k", "q", " ", "-">>
    \o <<" ", "0", " ", "1">>

\* 8/2p5/3p4/KP5r/1R3p1k/8/4P1P1/8 w - - 0 1
FenPosition3 ==
    <<"8", "/", "2", "p", "5", "/", "3", "p", "4", "/", "K", "P", "5", "r", "/", "1">>
    \o <<"R", "3", "p", "1", "k", "/", "8", "/", "4", "P", "1", "P", "1", "/", "8", " ">>
    \o <<"w", " ", "-", " ", "-", " ", "0", " ", "1">>

\* r3k2r/Pppp1ppp/1b3nbN/nP6/BBP1P3/q4N2/Pp1P2pP/R2Q1RK1 w kq - 0 1
FenPosition4 ==
    <<"r", "3", "k", "2", "r", "/", "P", "p", "p", "p", "1", "p", "p", "p", "/", "1">>
    \o <<"b", "3", "n", "b", "N", "/", "n", "P", "6", "/", "B", "B", "P", "1", "P", "3">>
    \o <<"/", "q", "4", "N", "2", "/", "P", "p", "1", "P", "2", "p", "P", "/", "R", "2">>
    \o <<"Q", "1", "R", "K", "1", " ", "w", " ", "k", "q", " ", "-", " ", "0", " ", "1">>

\* r3k2r/Pppp1ppp/1b3nbN/nP6/BBP1P3/q4N2/Pp1P2PP/R2Q1RK1 w kq - 0 1
FenPosition4White ==
    <<"r", "3", "k", "2", "r", "/", "P", "p", "p", "p", "1", "p", "p", "p", "/", "1">>
    \o <<"b", "3", "n", "b", "N", "/", "n", "P", "6", "/", "B", "B", "P", "1", "P", "3">>
    \o <<"/", "q", "4", "N", "2", "/", "P", "p", "1", "P", "2", "P", "P", "/", "R", "2">>
    \o <<"Q", "1", "R", "K", "1", " ", "w", " ", "k", "q", " ", "-", " ", "0", " ", "1">>

\* rnbq1k1r/pp1Pbppp/2p5/8/2B5/8/PPP1NnPP/RNBQK2R w KQ - 1 8
FenPosition5 ==
    <<"r", "n", "b", "q", "1", "k", "1", "r", "/", "p", "p", "1", "P", "b", "p", "p">>
    \o <<"p", "/", "2", "p", "5", "/", "8", "/", "2", "B", "5", "/", "8", "/", "P", "P">>
    \o <<"P", "1", "N", "n", "P", "P", "/", "R", "N", "B", "Q", "K", "2", "R", " ", "w">>
    \o <<" ", "K", "Q", " ", "-", " ", "1", " ", "8">>

PerftFens ==
    {START_POS, FenKiwipete, FenPosition3, FenPosition4, FenPosition4White, FenPosition5}

\* 7k/7p/7P/8/8/8/8/K7 w - - 0 1
FenPawns ==
    <<"7", "k", "/", "7", "p", "/", "7", "P", "/", "8", "/", "8", "/", "8", "/", "8", "/",
      "K", "7", " ", "w", " ", "-", " ", "-", " ", "0", " ", "1">>

\* 7k/8/8/8/8/8/8/K7 w - - 100 1
FenFifty ==
    <<"7", "k", "/", "8", "/", "8", "/", "8", "/", "8", "/", "8", "/", "8", "/",
      "K", "7", " ", "w", " ", "-", " ", "-", " ", "1", "0", "0", " ", "1">>

\* the arguments of the position commands: a FEN and a list of moves
Positions ==
    {[fen |-> FenPawns, moves |-> <<>>],
     [fen |-> FenPawns, moves |-> <<<<"a", "1", "b", "1">>>>],
     [fen |-> FenFifty, moves |-> <<>>]}

\* 7k/8/8/8/8/8/8/K7 w - - 4 1
FenKings ==
    <<"7", "k", "/", "8", "/", "8", "/", "8", "/", "8", "/", "8", "/", "8", "/", "K",
      "7", " ", "w", " ", "-", " ", "-", " ", "4", " ", "1">>

\* 8/8 w - -
FenFields ==
    <<"8", "/", "8", " ", "w", " ", "-", " ", "-">>

\* 7k/8/8/8/8/8/8/K6x w - - 0 1
FenBadChar ==
    <<"7", "k", "/", "8", "/", "8", "/", "8", "/", "8", "/", "8", "/", "8", "/", "K",
      "6", "x", " ", "w", " ", "-", " ", "-", " ", "0", " ", "1">>

\* 7k/8/8/8/8/8/8/K8 w - - 0 1
FenBadRow ==
    <<"7", "k", "/", "8", "/", "8", "/", "8", "/", "8", "/", "8", "/", "8", "/", "K",
      "8", " ", "w", " ", "-", " ", "-", " ", "0", " ", "1">>

\* 7k/8/8/8/8/8/8/K7 x - - 0 1
FenBadSide ==
    <<"7", "k", "/", "8", "/", "8", "/", "8", "/", "8", "/", "8", "/", "8", "/", "K",
      "7", " ", "x", " ", "-", " ", "-", " ", "0", " ", "1">>

\* 7k/8/8/8/8/8/8/K7 w X - 0 1
FenBadCastle ==
    <<"7", "k", "/", "8", "/", "8", "/", "8", "/", "8", "/", "8", "/", "8", "/", "K",
      "7", " ", "w", " ", "X", " ", "-", " ", "0", " ", "1">>

\* 7k/8/8/8/8/8/8/K7 w - e4 0 1
FenBadEnPassant ==
    <<"7", "k", "/", "8", "/", "8", "/", "8", "/", "8", "/", "8", "/", "8", "/", "K",
      "7", " ", "w", " ", "-", " ", "e", "4", " ", "0", " ", "1">>

\* 7k/8/8/8/8/8/8/K7 w - - 101 1
FenBadFifty ==
    <<"7", "k", "/", "8", "/", "8", "/", "8", "/", "8", "/", "8", "/", "8", "/", "K",
      "7", " ", "w", " ", "-", " ", "-", " ", "1", "0", "1", " ", "1">>

\* 7k/8/8/8/8/8/8/K7 w - - 2147483648 1
FenHugeFifty ==
    <<"7", "k", "/", "8", "/", "8", "/", "8", "/", "8", "/", "8", "/", "8", "/", "K",
      "7", " ", "w", " ", "-", " ", "-", " ", "2", "1", "4", "7", "4", "8", "3", "6",
      "4", "8", " ", "1">>

\* 7k/8/8/8/8/8/8/K7 w - - 0 x
FenBadMoveNumber ==
    <<"7", "k", "/", "8", "/", "8", "/", "8", "/", "8", "/", "8", "/", "8", "/", "K",
      "7", " ", "w", " ", "-", " ", "-", " ", "0", " ", "x">>

\* 8/8/8/8/8/8/8/P7 w KQkq e6 0 1
FenNoKings ==
    <<"8", "/", "8", "/", "8", "/", "8", "/", "8", "/", "8", "/", "8", "/", "P", "7",
      " ", "w", " ", "K", "Q", "k", "q", " ", "e", "6", " ", "0", " ", "1">>

\* the FENs that setToFEN has to reject
MalformedFens ==
    {FenFields, FenBadChar, FenBadRow, FenBadSide, FenBadCastle, FenBadEnPassant,
     FenBadFifty, FenHugeFifty, FenBadMoveNumber}

\* the arguments of the position commands of the set-up runs
FenPositions ==
    {[fen |-> f, moves |-> <<>>] : f \in MalformedFens \cup {START_POS, FenKings, FenNoKings}}
    \cup {[fen |-> FenKings, moves |-> <<<<"a", "1", "a", "2">>, <<"h", "8", "g", "8">>>>],
          [fen |-> FenKings, moves |-> <<<<"a", "1", "a", "2">>, <<"h", "8", "g", "8">>, <<"a", "2", "a", "1">>, <<"g", "8", "h", "8">>>>],
          [fen |-> FenCheck, moves |-> <<<<"d", "1", "c", "3">>, <<"e", "1", "e", "2">>>>],
          [fen |-> FenKings, moves |-> <<<<"a", "1", "a", "3">>, <<"a", "1", "a", "2">>>>],
          [fen |-> FenFifty, moves |-> <<<<"a", "1", "a", "2">>>>]}

\* lines of input without a command of the loop, or with a go or a setoption
\* whose number is missing or is no number
\* go depth
LineGoDepth ==
    <<"g", "o", " ", "d", "e", "p", "t", "h">>

\* go depth x
LineGoDepthWord ==
    <<"g", "o", " ", "d", "e", "p", "t", "h", " ", "x">>

\* go wtime
LineGoWtime ==
    <<"g", "o", " ", "w", "t", "i", "m", "e">>

\* setoption name Hash value abc
LineHashWord ==
    <<"s", "e", "t", "o", "p", "t", "i", "o", "n", " ", "n", "a", "m", "e">>
    \o <<" ", "H", "a", "s", "h", " ", "v", "a", "l", "u", "e", " ", "a", "b", "c">>

\* setoption name Hash
LineHashNoValue ==
    <<"s", "e", "t", "o", "p", "t", "i", "o", "n">>
    \o <<" ", "n", "a", "m", "e", " ", "H", "a", "s", "h">>

\* debug on
LineUnknown ==
    <<"d", "e", "b", "u", "g", " ", "o", "n">>

\* setoption name Log File value a.log
LineLogFile ==
    <<"s", "e", "t", "o", "p", "t", "i", "o", "n", " ", "n", "a", "m", "e", " ", "L", "o">>
    \o <<"g", " ", "F", "i", "l", "e", " ", "v", "a", "l", "u", "e", " ", "a", ".", "l", "o", "g">>

OtherLines ==
    {<<>>, LineGoDepth, LineGoDepthWord, LineGoWtime, LineHashWord,
     LineHashNoValue, LineUnknown, LineLogFile}

\* arguments of store and retrieve: two keys, two moves, scores and depths
\* of which one each does not fit its field of an Entry, and two windows
TableKeys == {{70}, {71}}

TableMoves == {100, 200}

TableEvals == {0, 50, 40000}

StoreDepths == {1, 257}

ProbeDepths == {1, 2}

TableWindows == {<<-10, 10>>, <<50, 60>>}

vars == <<board, hash_keys_initialized, attackTablesInit, lastOp, lastMove, lastResult,
          before, snaps, setup, probes, table, info, pvMove, searchKillers, searchHistory,
          counterMoves, moveOverhead, perftRun, attackQuery, ordered, search, uci, out, obs>>

\* what the make/undo operations on the Position leave alone
engineVars == <<table, info, pvMove, searchKillers, searchHistory, counterMoves,
                moveOverhead, search, uci, out, obs>>

\* what the perft leaves alone
perftVars == <<lastMove, lastResult, before, snaps, setup, probes, attackQuery, ordered, engineVars>>

\* what the UCI loop and the search thread leave alone
positionVars == <<lastMove, lastResult, before, snaps, setup, probes, perftRun, attackQuery, ordered>>

\* the search thread exists and has not yet emitted its bestmove
SearchLive == search.pc \in {"spawned", "search"}

\* no call of orderMoves is asked for
NoPicks == [best |-> 0, k1 |-> 0, k2 |-> 0, h |-> 0, value |-> 0]

\* no look-up in an attack table is asked for
NoQuery == [piece |-> NO_PIECE, sq |-> 0, allPieces |-> {}, attacks |-> {}, done |-> FALSE]

\* the state once uci() has constructed the Engine and its Board and printed
\* uciok: hash keys, attack tables and transposition table are not initialized;
\* query is the look-up in an attack table that is asked for
InitWith(query, picks) ==
    /\ hash_keys_initialized = FALSE
    /\ attackTablesInit = FALSE
    /\ board = reset(BlankBoard)
    /\ lastOp = "Engine"
    /\ lastMove = INVALID
    /\ lastResult = TRUE
    /\ before = BlankBoard
    /\ snaps = <<>>
    /\ setup = [fen |-> START_POS, moves |-> <<>>, result |-> "true"]
    /\ probes = [stores |-> {}, retrieved |-> <<>>]
    /\ table = setSize(TranspositionTable, DefaultHash)
    /\ info = SearchInfo
    /\ pvMove = 0
    /\ searchKillers = [p \in 0..(MAX_SEARCH_DEPTH - 1) |-> <<0, 0>>]
    /\ searchHistory = [p \in Pieces |-> [sq \in Squares |-> 0]]
    /\ counterMoves = <<>>
    /\ moveOverhead = 100
    /\ perftRun = [fen |-> <<>>, depth |-> 0, stack |-> <<>>, nodes |-> 0, done |-> FALSE]
    /\ attackQuery = query
    /\ ordered = [picks |-> picks, done |-> FALSE, bestMove |-> INVALID, killers |-> <<0, 0>>,
                  history |-> [piece |-> NO_PIECE, to |-> 0, value |-> 0],
                  moves |-> <<>>, moveList |-> <<>>]
    /\ search = [pc |-> "none", stack |-> <<>>, ret |-> 0, mode |-> "call", depth |-> 0,
                 arg |-> SearchInfo]
    /\ uci = [pc |-> "loop", info |-> SearchInfo, cmds |-> 0, joinable |-> FALSE]
    /\ out = <<>>
    /\ obs = [live |-> 0, spawns |-> 0, raced |-> FALSE, root |-> BlankBoard, completed |-> 0,
              iterBest |-> INVALID, rootDone |-> <<>>, stopSent |-> FALSE, polls |-> 0,
              lastPoll |-> FALSE, stopIter |-> 0, score |-> 0]

Init == InitWith(NoQuery, NoPicks)

(***************************************************************************)
(* The Position under make and undo: the engine is initialized, the board  *)
(* is set up from a FEN, and pseudo-legal moves of the generator are made  *)
(* and undone.                                                             *)
(***************************************************************************)
\* Engine::initialize: the hash keys, the attack tables, the table
Initialize ==
    /\ hash_keys_initialized' = TRUE
    /\ attackTablesInit' = TRUE
    /\ table' = initializeTable(table)
    /\ lastOp' = "initialize"
    /\ UNCHANGED <<board, perftRun, attackQuery, ordered, lastMove, lastResult, before, snaps, setup, probes, info, pvMove,
                   searchKillers, searchHistory, counterMoves, moveOverhead, search, uci, out, obs>>

\* Engine::setupBoard
SetupBoard ==
    /\ board.history = <<>>
    /\ \E fen \in StartFens :
          \E set \in {setToFEN(board, fen)} :
              /\ board' = set.board
              /\ lastResult' = (set.result = "true")
              /\ setup' = [fen |-> fen, moves |-> <<>>, result |-> set.result]
    /\ lastOp' = "setToFEN"
    /\ lastMove' = INVALID
    /\ before' = BlankBoard
    /\ snaps' = <<>>
    /\ UNCHANGED <<hash_keys_initialized, attackTablesInit, probes, perftRun, attackQuery, ordered, engineVars>>

\* Board::makeMove on a move of the generator's list
MakeMove ==
    /\ Len(board.history) < MaxPly
    /\ \E move \in Range(generateMoves(board)) :
          \E made \in {makeMove(board, move)} :
              /\ board' = made.board
              /\ lastMove' = move
              /\ lastResult' = made.legal
              /\ snaps' = IF made.legal THEN Append(snaps, board) ELSE snaps
    /\ lastOp' = "makeMove"
    /\ before' = board
    /\ UNCHANGED <<hash_keys_initialized, attackTablesInit, setup, probes, perftRun, attackQuery, ordered, engineVars>>

\* Board::undoMove, as the search calls it: on a move it has made itself
UndoMove ==
    /\ Len(snaps) > 0
    /\ board' = undoMove(board)
    /\ lastOp' = "undoMove"
    /\ lastMove' = INVALID
    /\ lastResult' = TRUE
    /\ before' = snaps[Len(snaps)]
    /\ snaps' = SubSeq(snaps, 1, Len(snaps) - 1)
    /\ UNCHANGED <<hash_keys_initialized, attackTablesInit, setup, probes, perftRun, attackQuery, ordered, engineVars>>

Next == Initialize \/ SetupBoard \/ MakeMove \/ UndoMove

Spec == Init /\ [][Next]_vars

(***************************************************************************)
(* Perft: main() without the uci protocol initializes the engine and runs  *)
(* perft on the reference positions.  A run is the loops of the recursive  *)
(* calls, one frame per call with its move list and the number of moves    *)
(* tried; a step tries the next move of the innermost loop or ends it.     *)
(***************************************************************************)
\* a perft of one of the positions begins: the Position is set up and the
\* moves of the root are generated
PerftStart ==
    /\ hash_keys_initialized /\ attackTablesInit
    /\ perftRun.stack = <<>>
    /\ \E fen \in PerftFens, depth \in 1..PerftDepth :
          \E set \in {setToFEN(board, fen)} :
              /\ board' = set.board
              /\ perftRun' = [fen |-> fen, depth |-> depth, nodes |-> 0, done |-> FALSE,
                              stack |-> <<[moveList |-> generateMoves(set.board), i |-> 0]>>]
    /\ lastOp' = "perftStart"
    /\ UNCHANGED <<hash_keys_initialized, attackTablesInit, perftVars>>

\* the run after the innermost loop has tried its next move: an illegal move
\* is skipped, a legal one is counted at the last depth and undone, or its
\* replies are generated
perftTry(b, run, made) ==
    LET n == Len(run.stack)
        tried == [run EXCEPT !.stack[n].i = @ + 1]
    IN  IF ~made.legal THEN [board |-> made.board, run |-> tried]
        ELSE IF n = run.depth
        THEN [board |-> undoMove(made.board), run |-> [tried EXCEPT !.nodes = @ + 1]]
        ELSE [board |-> made.board,
              run |-> [tried EXCEPT !.stack = Append(@, [moveList |-> generateMoves(made.board),
                                                          i |-> 0])]]

\* the run after the innermost loop has ended: the call returns and its
\* caller undoes the move, or the perft is finished
perftReturn(b, run) ==
    LET n == Len(run.stack)
        returned == [run EXCEPT !.stack = SubSeq(@, 1, n - 1)]
    IN  IF n = 1 THEN [board |-> b, run |-> [returned EXCEPT !.done = TRUE]]
        ELSE [board |-> undoMove(b), run |-> returned]

PerftStep ==
    /\ perftRun.stack # <<>>
    /\ \E top \in {perftRun.stack[Len(perftRun.stack)]} :
          \E next \in {IF top.i = Len(top.moveList) THEN perftReturn(board, perftRun)
                        ELSE perftTry(board, perftRun,
                                      makeMove(board, top.moveList[top.i + 1]))} :
              /\ board' = next.board
              /\ perftRun' = next.run
    /\ lastOp' = "perft"
    /\ UNCHANGED <<hash_keys_initialized, attackTablesInit, perftVars>>

NextPerft == Initialize \/ PerftStart \/ PerftStep

SpecPerft == Init /\ [][NextPerft]_vars

(***************************************************************************)
(* Attack.cpp: the magic numbers, the index of a blocker bitboard, the     *)
(* attack tables as initializeBishopAttackTable and                        *)
(* initializeRookAttackTable fill them, and the look-ups through them.  A  *)
(* uint64 is its four 16-bit limbs, the lowest first.                      *)
(***************************************************************************)
bishopMagics ==
    <<<<576, 38404, 4632, 35233>>, <<8208, 512, 33864, 8196>>, <<4096, 20882, 2048, 8296>>, <<2056, 8224, 2562, 25224>>,
      <<0, 1024, 1056, 4>>, <<17, 8224, 33312, 256>>, <<10, 8210, 17442, 49156>>, <<24577, 289, 32904, 40>>,
      <<33024, 34880, 18720, 1024>>, <<132, 1036, 50177, 513>>, <<16, 37130, 2048, 132>>, <<96, 32804, 2080, 0>>,
      <<24576, 1024, 33797, 8192>>, <<20484, 2112, 3137, 12289>>, <<2050, 4104, 84, 4104>>, <<2304, 2320, 1058, 33092>>,
      <<17408, 8193, 2064, 520>>, <<51712, 4616, 32, 72>>, <<8200, 2049, 5124, 3864>>, <<8193, 528, 40, 4100>>,
      <<2065, 8200, 8, 2113>>, <<8200, 164, 8194, 64>>, <<8192, 21508, 32768, 0>>, <<36864, 16652, 1024, 34817>>,
      <<17040, 28688, 1028, 1312>>, <<129, 20816, 1024, 4100>>, <<33, 13064, 2072, 8194>>, <<322, 3073, 192, 4>>,
      <<8192, 3072, 2080, 37908>>, <<24593, 128, 33024, 1624>>, <<2560, 16452, 1808, 392>>, <<7168, 513, 16448, 18432>>,
      <<16896, 16448, 17440, 260>>, <<4129, 521, 2050, 1297>>, <<1024, 274, 548, 4>>, <<288, 8, 1028, 32960>>,
      <<2050, 16514, 256, 32832>>, <<144, 2, 33031, 1152>>, <<578, 4, 142, 258>>, <<256, 517, 82, 2057>>,
      <<16512, 8208, 578, 32770>>, <<8192, 1044, 136, 1073>>, <<5120, 520, 24, 25>>, <<128, 2052, 322, 512>>,
      <<256, 2080, 2080, 13064>>, <<49184, 64, 4176, 1040>>, <<776, 1057, 524, 16402>>, <<16512, 512, 8354, 8322>>,
      <<8192, 8200, 1025, 273>>, <<2560, 16680, 1025, 26627>>, <<0, 577, 66, 8449>>, <<32802, 16656, 0, 33280>>,
      <<32768, 33288, 528, 0>>, <<64, 1025, 16642, 2>>, <<36864, 128, 4100, 64>>, <<532, 8322, 2178, 2082>>,
      <<8196, 36865, 32896, 64>>, <<6345, 1026, 548, 145>>, <<20488, 8705, 33092, 1026>>, <<9232, 1156, 320, 144>>,
      <<16645, 16944, 0, 1>>, <<10752, 12353, 136, 16>>, <<35080, 36864, 2064, 9504>>, <<320, 41126, 8192, 16400>>>>

rookMagics ==
    <<<<32800, 16, 704, 2688>>, <<8193, 45056, 73, 1728>>, <<64, 4105, 8192, 256>>, <<2049, 128, 1040, 9344>>,
      <<2048, 1024, 640, 640>>, <<34, 2052, 16640, 2304>>, <<4224, 256, 512, 640>>, <<128, 16640, 32, 10368>>,
      <<52, 32832, 32768, 40960>>, <<16384, 8192, 32896, 4>>, <<4096, 1152, 32800, 8848>>, <<32, 16, 13, 1041>>,
      <<128, 4, 32776, 1026>>, <<16904, 256, 4, 11>>, <<512, 4, 1, 9225>>, <<16514, 0, 33, 1>>,
      <<16384, 482, 34688, 34>>, <<16400, 8448, 33024, 4240>>, <<18, 16416, 768, 2049>>, <<4096, 2048, 32896, 1280>>,
      <<2176, 5120, 384, 2568>>, <<512, 1024, 32896, 32768>>, <<512, 32769, 128, 513>>, <<4241, 68, 512, 2049>>,
      <<16389, 32800, 32768, 0>>, <<72, 16400, 8192, 4160>>, <<8322, 64, 4610, 0>>, <<128, 32784, 34820, 3348>>,
      <<128, 32776, 1026, 18>>, <<128, 32770, 1024, 256>>, <<512, 32896, 256, 36896>>, <<33865, 20, 9234, 2067>>,
      <<128, 384, 24640, 1169>>, <<8193, 64, 16400, 256>>, <<4160, 8448, 256, 18464>>, <<2066, 512, 16418, 1024>>,
      <<2050, 1280, 144, 521>>, <<1024, 384, 32774, 2064>>, <<336, 5120, 2098, 17153>>, <<5121, 36352, 9797, 8256>>,
      <<32768, 128, 8256, 64>>, <<32, 16385, 128, 32769>>, <<16, 8258, 33288, 33808>>, <<32, 9, 16, 4099>>,
      <<32896, 2048, 1024, 2052>>, <<4, 4098, 8, 18>>, <<520, 4, 4098, 4096>>, <<1, 17410, 160, 17152>>,
      <<768, 9025, 144, 640>>, <<8768, 16384, 4096, 224>>, <<5888, 64, 8193, 0>>, <<32896, 2048, 4100, 8772>>,
      <<6528, 128, 4, 8>>, <<512, 4100, 8, 2>>, <<1024, 10369, 4098, 32784>>, <<512, 17441, 144, 8192>>,
      <<8449, 16400, 128, 16512>>, <<7425, 32833, 32, 64>>, <<2305, 24576, 21056, 8197>>, <<1058, 2112, 16, 1282>>,
      <<1026, 4128, 8, 18586>>, <<2579, 8, 68, 1>>, <<132, 2050, 272, 16384>>, <<32834, 5125, 33, 38>>>>

\* (v << s) modulo 2^64
Shl64(v, s) ==
    LET q == s \div 16
        m == 2 ^ (s % 16)
        limb(i) == IF i < 1 THEN 0 ELSE v[i]
    IN  [j \in 1..4 |-> ((limb(j - q) * m) % 65536) + ((limb(j - q - 1) * m) \div 65536)]

\* a + b modulo 2^64
Plus64(a, b) ==
    LET c1 == (a[1] + b[1]) \div 65536
        c2 == (a[2] + b[2] + c1) \div 65536
        c3 == (a[3] + b[3] + c2) \div 65536
    IN  <<(a[1] + b[1]) % 65536, (a[2] + b[2] + c1) % 65536,
          (a[3] + b[3] + c2) % 65536, (a[4] + b[4] + c3) % 65536>>

\* blockers * magic modulo 2^64: the bitboard is the sum of its bits
Times64(blockers, magic) ==
    LET n == Cardinality(blockers)
        bit(i) == CHOOSE x \in blockers : Cardinality({y \in blockers : y < x}) = i
        f[i \in 0..n] ==
            IF i = 0 THEN Zero64 ELSE Plus64(f[i - 1], Shl64(magic, bit(i - 1)))
    IN  f[n]

\* a mutation of tableIndex: the low bits of the product
tableIndexLow(product, numBlockers) == product[1] % (2 ^ numBlockers)

\* static_cast<int>(product >> (64 - numBlockers)), numBlockers <= 12
tableIndex(product, numBlockers) == product[4] \div (2 ^ (16 - numBlockers))

\* the loop over blockerIdx of initializeBishopAttackTable and of
\* initializeRookAttackTable: bit i of blockerIdx selects the i-th lowest
\* square of the blocker mask; for each blockerIdx the blockers and their index
BlockerBoards(mask, magic) ==
    LET n == Cardinality(mask)
        bit(i) == CHOOSE x \in mask : Cardinality({y \in mask : y < x}) = i
        boards[i \in 0..n] ==
            IF i = 0 THEN [blockerIdx \in {0} |-> [blockers |-> {}, product |-> Zero64]]
            ELSE LET half == boards[i - 1]
                     sq == bit(i - 1)
                     add == Shl64(magic, sq)
                     with(b) == [blockers |-> b.blockers \cup {sq},
                                 product |-> Plus64(b.product, add)]
                 IN  [blockerIdx \in 0..(2 ^ i - 1) |->
                        IF blockerIdx < 2 ^ (i - 1) THEN half[blockerIdx]
                        ELSE with(half[blockerIdx - 2 ^ (i - 1)])]
        index(all) ==
            [blockerIdx \in DOMAIN all |->
                [blockers |-> all[blockerIdx].blockers,
                 index |-> tableIndex(all[blockerIdx].product, n)]]
    IN  index(boards[n])

\* the blockerIdx whose store into the slot of this index was the last
LastStore(boards, index) ==
    LET stores == {blockerIdx \in DOMAIN boards : boards[blockerIdx].index = index}
    IN  IF stores = {} THEN -1 ELSE Max(stores)

\* bishopAttackTable[sq][index] once initializeBishopAttackTable has run: what
\* the last blockerIdx of this index stored, zero if none had this index
bishopAttackTable(sq, index) ==
    LET entry(boards, last) ==
            IF last = -1 THEN {} ELSE bishopAttacksSlow(sq, boards[last].blockers)
        read(boards) == entry(boards, LastStore(boards, index))
    IN  read(BlockerBoards(bishopBlockers[sq], bishopMagics[sq + 1]))

rookAttackTable(sq, index) ==
    LET entry(boards, last) ==
            IF last = -1 THEN {} ELSE rookAttacksSlow(sq, boards[last].blockers)
        read(boards) == entry(boards, LastStore(boards, index))
    IN  read(BlockerBoards(rookBlockers[sq], rookMagics[sq + 1]))

\* the occupancies the look-ups are made with, the square of the piece added
Occupancies ==
    {{s \in Squares : RankOf(s) \in {0, 1, 6, 7}}, FileA \cup FileH \cup Rank1And8}

\* the look-ups asked for: a bishop or a rook on any square
Queries ==
    {[piece |-> p, sq |-> sq, allPieces |-> occ \cup {sq}, attacks |-> {}, done |-> FALSE] :
        p \in {BISHOP, ROOK}, sq \in Squares, occ \in Occupancies}

\* getBishopAttacks(sq, allPieces) through the magic index and the table
BishopLookup ==
    /\ attackTablesInit
    /\ attackQuery.piece = BISHOP /\ ~attackQuery.done
    /\ attackQuery' =
          [attackQuery EXCEPT
              !.done = TRUE,
              !.attacks =
                  bishopAttackTable(attackQuery.sq,
                      tableIndex(Times64(attackQuery.allPieces \cap bishopBlockers[attackQuery.sq],
                                         bishopMagics[attackQuery.sq + 1]),
                                 Cardinality(bishopBlockers[attackQuery.sq])))]
    /\ UNCHANGED <<board, hash_keys_initialized, attackTablesInit, lastOp, perftRun, lastMove,
                   lastResult, before, snaps, setup, probes, engineVars, ordered>>

\* getRookAttacks(sq, allPieces) through the magic index and the table
RookLookup ==
    /\ attackTablesInit
    /\ attackQuery.piece = ROOK /\ ~attackQuery.done
    /\ attackQuery' =
          [attackQuery EXCEPT
              !.done = TRUE,
              !.attacks =
                  rookAttackTable(attackQuery.sq,
                      tableIndex(Times64(attackQuery.allPieces \cap rookBlockers[attackQuery.sq],
                                         rookMagics[attackQuery.sq + 1]),
                                 Cardinality(rookBlockers[attackQuery.sq])))]
    /\ UNCHANGED <<board, hash_keys_initialized, attackTablesInit, lastOp, perftRun, lastMove,
                   lastResult, before, snaps, setup, probes, engineVars, ordered>>

NextMagic == Initialize \/ BishopLookup \/ RookLookup

\* the look-up asked for is any of Queries
InitMagic == \E query \in Queries : InitWith(query, NoPicks)

SpecMagic == InitMagic /\ [][NextMagic]_vars

(***************************************************************************)
(* MoveList::orderMoves on the moves of a position, with a best move,      *)
(* killers and a history score as the search may have recorded them.       *)
(***************************************************************************)
\* the history scores a move may have: none, one raise of alpha at depth 2,
\* at depth 4 and at depth 5
HistoryValues == {0, 4, 16, 25}

\* the arguments asked for: whether the last move of the list is the best
\* move, which of the first and the last quiet move are the killers, whether
\* the second or the last quiet move has the history score, and the score
OrderPicks ==
    {[best |-> best, k1 |-> k[1], k2 |-> k[2], h |-> h, value |-> value] :
        best \in {0, 1}, k \in {<<0, 0>>, <<1, 0>>, <<1, 2>>, <<2, 1>>}, h \in {1, 2},
        value \in HistoryValues}

\* moves that are neither captures nor promotions
QuietMoves(moves) ==
    {k \in 1..Len(moves) :
        /\ ~HasFlag(moves[k], CAPTURE_FLAG) /\ ~HasFlag(moves[k], EN_PASSANT_FLAG)
        /\ ~HasFlag(moves[k], PROMOTION_FLAG)}

\* moveList.orderMoves(bestMove, searchKillers, searchHistory) as alphaBeta
\* calls it on the generated moves, with the arguments asked for
OrderMoves ==
    /\ hash_keys_initialized /\ attackTablesInit
    /\ ordered.picks # NoPicks /\ ~ordered.done
    /\ \E moves \in {generateMoves(board)} :
          /\ Cardinality(QuietMoves(moves)) >= 3
          /\ LET quiet == QuietMoves(moves)
                 pick(k) == IF k = 0 THEN 0
                            ELSE moves[IF k = 1 THEN Min(quiet) ELSE Max(quiet)] % ScoreShift
                 picks == ordered.picks
                 h == moves[IF picks.h = 1 THEN Min(quiet \ {Min(quiet)}) ELSE Max(quiet)]
                 piece == board.pieces[MoveFrom(h)]
                 killers == <<pick(picks.k1), pick(picks.k2)>>
                 bestMove == IF picks.best = 0 THEN INVALID
                             ELSE moves[Len(moves)] % ScoreShift
             IN  ordered' =
                    [ordered EXCEPT
                        !.done = TRUE,
                        !.bestMove = bestMove,
                        !.killers = killers,
                        !.history = [piece |-> piece, to |-> MoveTo(h),
                                     value |-> picks.value],
                        !.moves = moves,
                        !.moveList =
                            orderMoves(moves, board, bestMove,
                                [searchKillers EXCEPT ![board.searchPly] = killers],
                                [searchHistory EXCEPT ![piece][MoveTo(h)] = picks.value])]
    /\ lastOp' = "orderMoves"
    /\ UNCHANGED <<board, hash_keys_initialized, attackTablesInit, perftRun, attackQuery,
                   lastMove, lastResult, before, snaps, setup, probes, engineVars>>

NextOrder == Initialize \/ SetupBoard \/ OrderMoves

\* the arguments asked for are any of OrderPicks
InitOrder == \E picks \in OrderPicks : InitWith(NoQuery, picks)

SpecOrder == InitOrder /\ [][NextOrder]_vars

(***************************************************************************)
(* The UCI loop of main.cpp and its search thread.  The main thread        *)
(* handles one command line per step; go is two steps, reading the command *)
(* and, once the previous search thread is joined, starting the new one.   *)
(* obs records what has happened to the current search thread, for the     *)
(* properties; no action reads it except to know that the two threads have *)
(* raced on the Engine, after which the search thread's behaviour is       *)
(* undefined.                                                              *)
(***************************************************************************)
\* the members of Engine and the control state of the search thread
Engine ==
    [board |-> board, table |-> table, info |-> info, pvMove |-> pvMove,
     searchKillers |-> searchKillers, searchHistory |-> searchHistory,
     counterMoves |-> counterMoves, moveOverhead |-> moveOverhead,
     stack |-> search.stack, ret |-> search.ret, mode |-> search.mode]

\* the search thread has run up to e, in iteration depth
Install(e, depth) ==
    /\ board' = e.board
    /\ table' = e.table
    /\ info' = e.info
    /\ pvMove' = e.pvMove
    /\ searchKillers' = e.searchKillers
    /\ searchHistory' = e.searchHistory
    /\ counterMoves' = e.counterMoves
    /\ search' = [search EXCEPT !.pc = "search", !.stack = e.stack, !.ret = e.ret,
                                !.mode = e.mode, !.depth = depth]

\* the main thread reads the next line of input
ReadLine(name) ==
    /\ uci.pc = "loop"
    /\ uci.cmds < MaxCmds
    /\ lastOp' = name
    /\ UNCHANGED positionVars

\* isready: Engine::initialize, then readyok
Isready ==
    /\ ReadLine("isready")
    /\ hash_keys_initialized' = TRUE
    /\ attackTablesInit' = TRUE
    /\ table' = initializeTable(table)
    /\ uci' = [uci EXCEPT !.cmds = @ + 1]
    /\ obs' = [obs EXCEPT !.raced = @ \/ (SearchLive /\ (~hash_keys_initialized
                                                         \/ ~table.initialized))]
    /\ UNCHANGED <<board, info, pvMove, searchKillers, searchHistory, counterMoves, moveOverhead,
                   search, out>>

\* setoption name Hash value v: Engine::setHashTableSize
SetoptionHash ==
    /\ ReadLine("setoption")
    /\ \E v \in HashValues : table' = setSize(table, v)
    /\ uci' = [uci EXCEPT !.cmds = @ + 1]
    /\ UNCHANGED <<board, hash_keys_initialized, attackTablesInit, info, pvMove,
                   searchKillers, searchHistory, counterMoves, moveOverhead, search, out, obs>>

\* position fen ... [moves ...]: uci_process_position.  What setupBoard
\* returns is ignored and the moves are made all the same; an exception of
\* std::stoi is caught nowhere and ends the process
PositionWith(inputs) ==
    /\ uci.pc = "loop"
    /\ uci.cmds < MaxCmds
    /\ \E p \in inputs :
          \E set \in {setToFEN(board, p.fen)} :
              \E played \in {IF set.result = "throws"
                              THEN [board |-> set.board, made |-> <<>>, undefined |-> FALSE]
                              ELSE makeMoves(set.board, p.moves)} :
                  /\ board' = played.board
                  /\ snaps' = (IF set.result = "true" THEN <<>> ELSE snaps) \o played.made
                  /\ setup' = [fen |-> p.fen, moves |-> p.moves, result |-> set.result]
                  /\ lastResult' = (set.result = "true")
                  /\ uci' = [uci EXCEPT !.cmds = @ + 1,
                                        !.pc = IF set.result = "throws" THEN "terminated"
                                               ELSE IF played.undefined THEN "undefined"
                                               ELSE @]
    /\ lastOp' = "position"
    /\ lastMove' = INVALID
    /\ before' = board
    /\ obs' = [obs EXCEPT !.raced = @ \/ SearchLive]
    /\ UNCHANGED <<hash_keys_initialized, attackTablesInit, probes, table, info, pvMove,
                   searchKillers, searchHistory, counterMoves, moveOverhead, search, out,
                   perftRun, attackQuery, ordered>>

Position == PositionWith(Positions)

FenPosition == PositionWith(FenPositions)

\* ucinewgame: no branch of the loop matches the token
Ucinewgame ==
    /\ ReadLine("ucinewgame")
    /\ uci' = [uci EXCEPT !.cmds = @ + 1]
    /\ UNCHANGED <<board, hash_keys_initialized, attackTablesInit, table, info, pvMove,
                   searchKillers, searchHistory, counterMoves, moveOverhead, search, out, obs>>

\* go depth d: uci_process_go; the thread is started by Spawn
Go ==
    /\ ReadLine("go")
    /\ Len(generateMoves(board)) <= MaxMoves
    /\ \E d \in 1..MaxDepth :
          uci' = [uci EXCEPT !.pc = "go", !.cmds = @ + 1,
                             !.info = [SearchInfo EXCEPT !.maxDepth = d]]
    /\ UNCHANGED <<board, hash_keys_initialized, attackTablesInit, table, info, pvMove,
                   searchKillers, searchHistory, counterMoves, moveOverhead, search, out, obs>>

\* go, continued: join the previous search thread, start the new one
Spawn ==
    /\ uci.pc = "go"
    /\ joined(uci.joinable, search.pc)
    /\ search' = [pc |-> "spawned", stack |-> <<>>, ret |-> 0, mode |-> "call",
                  depth |-> 0, arg |-> uci.info]
    /\ uci' = [uci EXCEPT !.pc = "loop", !.joinable = TRUE]
    /\ obs' = [live |-> obs.live + 1, spawns |-> obs.spawns + 1, raced |-> FALSE, root |-> BlankBoard,
               completed |-> 0, iterBest |-> INVALID, rootDone |-> <<>>,
               stopSent |-> FALSE, polls |-> 0, lastPoll |-> FALSE, stopIter |-> 0, score |-> 0]
    /\ lastOp' = "spawn"
    /\ UNCHANGED <<board, hash_keys_initialized, attackTablesInit, table, info, pvMove,
                   searchKillers, searchHistory, counterMoves, moveOverhead, out, positionVars>>

\* stop: Engine::stopSearch
Stop ==
    /\ ReadLine("stop")
    /\ info' = [info EXCEPT !.stop = TRUE]
    /\ uci' = [uci EXCEPT !.cmds = @ + 1]
    /\ obs' = [obs EXCEPT !.stopSent = @ \/ SearchLive]
    /\ UNCHANGED <<board, hash_keys_initialized, attackTablesInit, table, pvMove,
                   searchKillers, searchHistory, counterMoves, moveOverhead, search, out>>

\* quit: Engine::stopSearch and leave the loop
Quit ==
    /\ ReadLine("quit")
    /\ info' = [info EXCEPT !.stop = TRUE]
    /\ uci' = [uci EXCEPT !.pc = "exit", !.cmds = @ + 1]
    /\ UNCHANGED <<board, hash_keys_initialized, attackTablesInit, table, pvMove,
                   searchKillers, searchHistory, counterMoves, moveOverhead, search, out, obs>>

\* after the loop: join the search thread and return from uci()
Exit ==
    /\ uci.pc = "exit"
    /\ joined(uci.joinable, search.pc)
    /\ uci' = [uci EXCEPT !.pc = "returned"]
    /\ lastOp' = "exit"
    /\ UNCHANGED <<board, hash_keys_initialized, attackTablesInit, table, info, pvMove,
                   searchKillers, searchHistory, counterMoves, moveOverhead, search, out, obs,
                   positionVars>>

\* searchPosition from its start to the first call of alphaBeta
SearchSetup ==
    /\ search.pc = "spawned"
    /\ ~obs.raced
    /\ \E now \in StartTimes :
          \E e \in {setupSearch([Engine EXCEPT !.info = search.arg], now)} :
              /\ Install(IF e.mode = "undefined" THEN e ELSE startIteration(e, 1), 1)
              /\ obs' = [obs EXCEPT !.root = [e.board EXCEPT !.searchPly = 0]]
    /\ hash_keys_initialized' = TRUE
    /\ attackTablesInit' = TRUE
    /\ lastOp' = "setupSearch"
    /\ UNCHANGED <<uci, out, moveOverhead, positionVars>>

\* the search thread from one poll of info.stop inside alphaBeta or
\* quiescence to the next
SearchStep ==
    /\ search.pc = "search"
    /\ ~obs.raced
    /\ search.mode = "call" \/ (search.mode = "return" /\ search.stack # <<>>)
    /\ \E positional \in (IF search.mode = "call" /\ Top(search).quiescent
                          THEN PositionalValues ELSE {0}) :
          \E e \in {searchStep(Engine, positional)} : Install(e, search.depth)
    /\ obs' = [obs EXCEPT
                  !.polls = IF obs.stopSent THEN @ + 1 ELSE @,
                  !.lastPoll = info.stop,
                  !.stopIter = IF info.stop /\ @ = 0 THEN search.depth ELSE @,
                  !.rootDone =
                      IF search.mode = "return" /\ Len(search.stack) = 1 /\ ~info.stop
                      THEN Append(@, <<Top(search).moveList[Top(search).i], -search.ret>>)
                      ELSE @]
    /\ lastOp' = "search"
    /\ UNCHANGED <<hash_keys_initialized, attackTablesInit, uci, out, moveOverhead, positionVars>>

\* searchPosition after alphaBeta has returned to it: the rest of the loop body
iterationEnd(e, depth) ==
    LET continue(x) ==
            IF x.ret > 20000 THEN [x EXCEPT !.mode = "bestmove"]
            ELSE startIteration(x, depth + 1)
        line(pv) ==
            IF pv.undefined THEN [e EXCEPT !.mode = "undefined"]
            ELSE continue([e EXCEPT !.board = pv.board])
    IN  IF e.info.stop THEN [e EXCEPT !.mode = "bestmove"]
        ELSE line(getPVLine(e.board, e.table, depth))

SearchIterEnd ==
    /\ search.pc = "search"
    /\ ~obs.raced
    /\ search.mode = "return" /\ search.stack = <<>>
    /\ \E e \in {iterationEnd(Engine, search.depth)} :
          Install(e, IF e.mode = "call" THEN search.depth + 1 ELSE search.depth)
    /\ obs' = [obs EXCEPT
                  !.polls = IF obs.stopSent THEN @ + 1 ELSE @,
                  !.lastPoll = info.stop,
                  !.stopIter = IF info.stop /\ @ = 0 THEN search.depth ELSE @,
                  !.completed = IF info.stop THEN @ ELSE @ + 1,
                  !.iterBest = IF info.stop THEN @ ELSE pvMove,
                  !.score = IF info.stop THEN @ ELSE search.ret,
                  !.rootDone = IF info.stop THEN @ ELSE <<>>]
    /\ lastOp' = "iteration"
    /\ UNCHANGED <<hash_keys_initialized, attackTablesInit, uci, out, moveOverhead, positionVars>>

\* the end of searchPosition: bestmove
SearchBestmove ==
    /\ search.pc = "search"
    /\ ~obs.raced
    /\ search.mode = "bestmove"
    /\ \E beyond \in BeyondChars : out' = Append(out, getMoveString(pvMove, beyond))
    /\ search' = [search EXCEPT !.pc = "done"]
    /\ obs' = [obs EXCEPT !.live = @ - 1]
    /\ lastOp' = "bestmove"
    /\ UNCHANGED <<board, hash_keys_initialized, attackTablesInit, table, info, pvMove,
                   searchKillers, searchHistory, counterMoves, moveOverhead, uci, positionVars>>

\* the search thread after the main thread has written the Position or the
\* tables under it (a data race) or after an access out of bounds: the
\* behaviour is undefined, and the model lets the thread end the process or
\* emit some bestmove
SearchUndefined ==
    /\ SearchLive
    /\ obs.raced \/ search.mode = "undefined"
    /\ \/ /\ search' = [search EXCEPT !.pc = "crashed"]
          /\ uci' = [uci EXCEPT !.pc = "crashed"]
          /\ obs' = [obs EXCEPT !.live = 0]
          /\ out' = out
       \/ /\ \E move \in {pvMove, INVALID} : \E beyond \in BeyondChars :
                out' = Append(out, getMoveString(move, beyond))
          /\ search' = [search EXCEPT !.pc = "done"]
          /\ obs' = [obs EXCEPT !.live = @ - 1]
          /\ uci' = uci
    /\ lastOp' = "undefined"
    /\ UNCHANGED <<board, hash_keys_initialized, attackTablesInit, table, info, pvMove,
                   searchKillers, searchHistory, counterMoves, moveOverhead, positionVars>>

\* setoption name Move Overhead value v: Engine::setMoveOverhead
SetoptionMoveOverhead ==
    /\ ReadLine("setoption")
    /\ \E v \in Overheads : moveOverhead' = v
    /\ uci' = [uci EXCEPT !.cmds = @ + 1]
    /\ UNCHANGED <<board, hash_keys_initialized, attackTablesInit, table, info, pvMove,
                   searchKillers, searchHistory, counterMoves, search, out, obs>>

\* go with the clocks of the game or a depth: uci_process_go on the tokens
\* after go
GoWith(lines) ==
    /\ ReadLine("go")
    /\ \E line \in lines :
          \E tokens \in {tokensOf(line)} :
              uci' = [uci EXCEPT !.pc = "go", !.cmds = @ + 1,
                                 !.info = uci_process_go(Tail(tokens)).info]
    /\ UNCHANGED <<board, hash_keys_initialized, attackTablesInit, table, info, pvMove,
                   searchKillers, searchHistory, counterMoves, moveOverhead, search, out,
                   obs>>

GoClock == GoWith(GoLines)

GoDepth == Len(generateMoves(board)) <= MaxMoves /\ GoWith(DepthLines)

MatePosition == PositionWith(MatePositions)

NextUci ==
    \/ Isready \/ SetoptionHash \/ Position \/ Ucinewgame \/ Go \/ Spawn \/ Stop \/ Quit
    \/ Exit \/ SearchSetup \/ SearchStep \/ SearchIterEnd \/ SearchBestmove \/ SearchUndefined

SpecUci == Init /\ [][NextUci]_vars

\* the clock of a search: the option, the position that gives the side to
\* move, go with the clocks, and the search thread up to the end of
\* setupSearch
NextClock ==
    \/ SetoptionMoveOverhead \/ Position \/ GoClock \/ Spawn \/ SearchSetup
    \/ SearchUndefined

SpecClock == Init /\ [][NextClock]_vars

\* searches to depth 2 of positions in which the side to move can mate
NextMate ==
    \/ MatePosition \/ GoDepth \/ Spawn \/ SearchSetup \/ SearchStep \/ SearchIterEnd
    \/ SearchBestmove \/ SearchUndefined

SpecMate == Init /\ [][NextMate]_vars

\* a line that holds no command of the loop and is skipped, or a go or a
\* setoption on which std::stoi throws: nothing catches the exception and the
\* process ends
OtherLine ==
    /\ ReadLine("line")
    /\ \E line \in OtherLines :
          \E effect \in {uciLine(tokensOf(line))} :
              /\ effect \in {"ignored", "throws"}
              /\ uci' = [uci EXCEPT !.cmds = @ + 1,
                                    !.pc = IF effect = "throws" THEN "terminated" ELSE @]
    /\ UNCHANGED <<board, hash_keys_initialized, attackTablesInit, table, info, pvMove,
                   searchKillers, searchHistory, counterMoves, moveOverhead, search, out, obs>>

\* the main thread alone: the Position under the commands that set it up
NextFen == Isready \/ FenPosition \/ Ucinewgame \/ OtherLine

SpecFen == Init /\ [][NextFen]_vars

(***************************************************************************)
(* The transposition table under store and retrieve, as the search calls   *)
(* them on the initialized table.  probes keeps the arguments of the last  *)
(* store of every key and the last retrieve with what it gave.             *)
(***************************************************************************)
\* TranspositionTable::store
TableStore ==
    /\ table.initialized
    /\ \E key \in TableKeys, move \in TableMoves, eval \in TableEvals,
          depth \in StoreDepths, type \in {EXACT, UPPER_BOUND, LOWER_BOUND} :
          /\ table' = store(table, key, move, eval, depth, type)
          /\ probes' = [stores |-> {st \in probes.stores : st.key # key}
                                      \cup {[key |-> key, move |-> move, eval |-> eval,
                                              depth |-> depth, type |-> type]},
                        retrieved |-> <<>>]
    /\ lastOp' = "store"
    /\ UNCHANGED <<board, perftRun, attackQuery, ordered, hash_keys_initialized, attackTablesInit, lastMove, lastResult,
                   before, snaps, setup, info, pvMove, searchKillers, searchHistory,
                   counterMoves, moveOverhead, search, uci, out, obs>>

\* TranspositionTable::retrieve, called as alphaBeta calls it
TableRetrieve ==
    /\ table.initialized
    /\ \E key \in TableKeys, depth \in ProbeDepths, w \in TableWindows :
          \E r \in {retrieve(table, key, depth, w[1], w[2], INVALID, -INF)} :
              probes' = [probes EXCEPT !.retrieved =
                            <<[key |-> key, depth |-> depth, alpha |-> w[1], beta |-> w[2],
                               hit |-> r.hit, bestMove |-> r.bestMove, eval |-> r.eval]>>]
    /\ lastOp' = "retrieve"
    /\ UNCHANGED <<board, perftRun, attackQuery, ordered, hash_keys_initialized, attackTablesInit, lastMove, lastResult,
                   before, snaps, setup, table, info, pvMove, searchKillers, searchHistory,
                   counterMoves, moveOverhead, search, uci, out, obs>>

NextTable == Initialize \/ TableStore \/ TableRetrieve

SpecTable == Init /\ [][NextTable]_vars

(***************************************************************************)
(* The rules of chess on the mailbox, independent of the bitboards: the    *)
(* square sq is attacked by a piece of color by.                           *)
(***************************************************************************)
Abs(n) == IF n < 0 THEN -n ELSE n

Sign(n) == IF n < 0 THEN -1 ELSE IF n > 0 THEN 1 ELSE 0

RefAttacked(pieces, sq, by) ==
    \E s \in Squares :
        LET p == pieces[s]
            df == FileOf(sq) - FileOf(s)
            dr == RankOf(sq) - RankOf(s)
            clear == \A k \in 1..7 :
                        k < Max({Abs(df), Abs(dr)})
                        => pieces[s + k * (Sign(df) + 8 * Sign(dr))] = NO_PIECE
            diagonal == Abs(df) = Abs(dr) /\ clear
            straight == (df = 0 \/ dr = 0) /\ clear
        IN  /\ s # sq
            /\ p # NO_PIECE
            /\ pieceColor[p] = by
            /\ CASE p % 6 = PAWN -> Abs(df) = 1 /\ dr = (IF by = WHITE THEN 1 ELSE -1)
                 [] p % 6 = KNIGHT -> {Abs(df), Abs(dr)} = {1, 2}
                 [] p % 6 = BISHOP -> diagonal
                 [] p % 6 = ROOK -> straight
                 [] p % 6 = QUEEN -> diagonal \/ straight
                 [] OTHER -> Abs(df) <= 1 /\ Abs(dr) <= 1

\* the mover's king is attacked once the move of the last makeMove is on the board
KingAttackedAfterMove ==
    LET applied == moveApplied(before, lastMove)
        mover == before.sideToMove
        kingSq == CHOOSE s \in Squares : applied.pieces[s] = pieceType[mover][KING]
    IN  RefAttacked(applied.pieces, kingSq, 1 - mover)

\* C1: an undoMove that follows a makeMove which returned legal restores every
\* field of the Position (bitboards, mailbox, material, side, castle rights,
\* en passant square, fifty-move count, key, hasCastled, ply, searchPly and the
\* history) to its value before that makeMove.
C1_UndoRestores == lastOp = "undoMove" => board = before

C1_Witness ==
    /\ lastOp = "undoMove"
    /\ board = before
    /\ Len(board.history) = 1
    /\ board.enPassantSquare # INVALID
    /\ attackTablesInit

\* C3: makeMove on a generated move returns false exactly when, with the move
\* applied, the mover's king is attacked by the opponent; then the Position is
\* what it was before the call, and otherwise the move stays applied.
C3_IllegalIffKingAttacked ==
    lastOp = "makeMove" =>
        /\ lastResult = ~KingAttackedAfterMove
        /\ ~lastResult => board = before
        /\ lastResult => board = moveApplied(before, lastMove)

\* C4: the redundant representations of the Position agree: the piece bitboards
\* are pairwise disjoint, each color bitboard is the union of that color's piece
\* bitboards (both colors: the union of the two), the mailbox holds on each
\* square the one piece whose bitboard contains it (or nothing), and material
\* is the sum of the piece values of each color.
C4_RepresentationsAgree ==
    LET pb == board.pieceBitboards
        cb == board.colorBitboards
        sumMaterial(c) ==
            LET f[p \in -1..11] ==
                    IF p = -1 THEN 0
                    ELSE f[p - 1] + (IF pieceColor[p] = c
                                     THEN Cardinality(pb[p]) * pieceMaterial[p] ELSE 0)
            IN  f[11]
    IN  /\ \A p, q \in Pieces : p # q => pb[p] \cap pb[q] = {}
        /\ \A c \in {WHITE, BLACK} : cb[c] = UNION {pb[p] : p \in {q \in Pieces : pieceColor[q] = c}}
        /\ cb[BOTH_COLORS] = cb[WHITE] \cup cb[BLACK]
        /\ \A sq \in Squares :
              IF board.pieces[sq] = NO_PIECE THEN \A p \in Pieces : sq \notin pb[p]
              ELSE \A p \in Pieces : sq \in pb[p] <=> p = board.pieces[sq]
        /\ \A c \in {WHITE, BLACK} : board.material[c] = sumMaterial(c)

C4_Witness ==
    /\ lastOp = "makeMove"
    /\ lastResult
    /\ HasFlag(lastMove, CAPTURE_FLAG)
    /\ HasFlag(lastMove, PROMOTION_FLAG)
    /\ attackTablesInit
    /\ C4_RepresentationsAgree

(***************************************************************************)
(* Properties of the position set-up                                       *)
(***************************************************************************)
\* a position command has been handled and the main thread reads on
PositionDone == lastOp = "position" /\ uci.pc = "loop"

\* C11: when setToFEN rejects the FEN of a position command, every field of
\* the Position equals its value before the command.
C11_RejectedFenLeavesPosition ==
    (PositionDone /\ setup.result = "false" /\ setup.moves = <<>>) => board = before

\* C12: setToFEN returns failure for every malformed FEN of the listed kinds,
\* whatever the Position was before.
C12_MalformedFenIsRejected ==
    (lastOp = "position" /\ setup.fen \in MalformedFens) => setup.result = "false"

\* the Position has the properties that an accepted FEN is to guarantee
ValidPosition(b) ==
    /\ Cardinality(b.pieceBitboards[WHITE_KING]) = 1
    /\ Cardinality(b.pieceBitboards[BLACK_KING]) = 1
    /\ \A sq \in (0..7) \cup (56..63) : b.pieces[sq] \notin {WHITE_PAWN, BLACK_PAWN}
    /\ HasBit(b.castlePerms, CASTLE_WK) => b.pieces[E1] = WHITE_KING /\ b.pieces[H1] = WHITE_ROOK
    /\ HasBit(b.castlePerms, CASTLE_WQ) => b.pieces[E1] = WHITE_KING /\ b.pieces[A1] = WHITE_ROOK
    /\ HasBit(b.castlePerms, CASTLE_BK) => b.pieces[E8] = BLACK_KING /\ b.pieces[H8] = BLACK_ROOK
    /\ HasBit(b.castlePerms, CASTLE_BQ) => b.pieces[E8] = BLACK_KING /\ b.pieces[A8] = BLACK_ROOK
    /\ b.enPassantSquare # INVALID =>
          /\ b.pieces[b.enPassantSquare] = NO_PIECE
          /\ IF b.sideToMove = WHITE
             THEN b.enPassantSquare \in 40..47 /\ b.pieces[b.enPassantSquare - 8] = BLACK_PAWN
             ELSE b.enPassantSquare \in 16..23 /\ b.pieces[b.enPassantSquare + 8] = WHITE_PAWN

\* C13: whenever setToFEN returns success the Position has one king of each
\* color, no pawn on rank 1 or 8, the king and rook of every castle right on
\* their home squares, and an en-passant square that is empty, on rank 6 or 3
\* for the side to move, with the enemy pawn in front of it.
C13_AcceptedFenIsValid ==
    (PositionDone /\ setup.result = "true" /\ setup.moves = <<>>) => ValidPosition(board)

\* C14: the history holds one record per half-move made and not undone since
\* the last successful set-up, in order, each with the move and the castle
\* rights, fifty-move count, en-passant square and key that held before it.
C14_HistoryIsMovesSinceSetup ==
    PositionDone =>
        /\ Len(board.history) = Len(snaps)
        /\ \A i \in 1..Len(snaps) :
              /\ board.history[i] =
                    PrevMove(board.history[i].move, snaps[i].castlePerms,
                             snaps[i].fiftyMoveCount, snaps[i].enPassantSquare,
                             snaps[i].positionKey)
              /\ \E made \in {makeMove(snaps[i], board.history[i].move)} :
                    /\ made.legal
                    /\ i < Len(snaps) => made.board = snaps[i + 1]

\* an earlier position of the game, with the same side to move and within the
\* last fiftyMoveCount half-moves, has the key of the current position
EarlierSameKey ==
    \E j \in 1..Len(snaps) :
        /\ snaps[j].sideToMove = board.sideToMove
        /\ Len(snaps) - j + 1 <= board.fiftyMoveCount
        /\ snaps[j].positionKey = board.positionKey

\* C15: isRepetition() is true exactly when an earlier position of the
\* current game with the same side to move, after the last capture or pawn
\* move, has the stored key of the current position.
C15_RepetitionIffEarlierKey ==
    PositionDone => (isRepetition(board) <=> EarlierSameKey)

\* the moves of a list made one by one from b up to the first that matches no
\* generated move or that makeMove rejects
movesUntilFailure(b, moves) ==
    LET f[i \in 0..Len(moves)] ==
            IF i = 0 THEN [board |-> b, failed |-> FALSE]
            ELSE LET made(prev, res) ==
                         IF res.legal THEN [board |-> res.board, failed |-> FALSE]
                         ELSE [prev EXCEPT !.failed = TRUE]
                     try(prev, move) ==
                         IF prev.failed \/ move = INVALID
                         THEN [prev EXCEPT !.failed = TRUE]
                         ELSE made(prev, makeMove(prev.board, move))
                     next(prev) ==
                         try(prev, IF prev.failed THEN INVALID
                                   ELSE parseMoveString(prev.board, moves[i]))
                 IN  next(f[i - 1])
    IN  f[Len(moves)]

\* C18: when a move of the list of a position command matches no generated
\* move or fails the legality check of makeMove, the command ends there: the
\* Position is the one that the moves before it reached, no later move is
\* made, and the loop reads on.
C18_FailingMoveEndsCommand ==
    (lastOp = "position" /\ setup.result # "throws") =>
        \E until \in {movesUntilFailure(setToFEN(before, setup.fen).board, setup.moves)} :
            until.failed => (board = until.board /\ uci.pc = "loop")

\* C19: no line other than quit ends the loop: after a line without a known
\* command, a malformed go or setoption, or any position, isready or
\* ucinewgame line the process has not ended.
C19_OnlyQuitEndsLoop ==
    lastOp \in {"line", "position", "isready", "ucinewgame"} => uci.pc # "terminated"

\* C20: after ucinewgame the Position is the start position with an empty
\* history, whatever it was before.
C20_UcinewgameResetsPosition ==
    lastOp = "ucinewgame" =>
        \E start \in {setToFEN(board, START_POS).board} :
            /\ board.pieces = start.pieces
            /\ board.sideToMove = WHITE
            /\ board.castlePerms = 15
            /\ board.enPassantSquare = INVALID
            /\ board.fiftyMoveCount = 0
            /\ board.history = <<>>

(***************************************************************************)
(* Properties of the transposition table                                   *)
(***************************************************************************)
\* the stored bound of st permits the cutoff in the window of r
Usable(st, r) ==
    \/ st.type = EXACT
    \/ st.type = LOWER_BOUND /\ st.eval >= r.beta
    \/ st.type = UPPER_BOUND /\ st.eval <= r.alpha

\* the score and the depth of st fit the fields short eval and unsigned char
\* depth of an Entry
FitsEntry(st) == st.eval \in -32768..32767 /\ st.depth \in 0..255

LegalMoves(b) == {m \in Range(generateMoves(b)) : makeMove(b, m).legal}

\* the move of the last bestmove line
LastBestmove == out[Len(out)]

\* the first of the root moves searched that has the greatest evaluation
BestSearched(rootDone) ==
    rootDone[Min({i \in 1..Len(rootDone) :
                     \A j \in 1..Len(rootDone) : rootDone[j][2] <= rootDone[i][2]})][1]

\* C2: in every state the UCI commands and the set-up, make and undo calls
\* they trigger can reach, the incrementally maintained positionKey equals the
\* key that generatePositionKey() computes from the Position with the current
\* Zobrist keys.
C2_KeyIsRecomputedKey == board.positionKey = generatePositionKey(board)

\* C5: a search to depth N of a root position that has a legal move, with no
\* stop and no quit command, runs at most N iterations and then writes
\* exactly one bestmove, a legal move of the root position.
C5_DepthSearchEmitsLegalMove ==
    (/\ lastOp = "bestmove"
     /\ ~obs.stopSent
     /\ uci.pc \in {"loop", "go"}
     /\ LegalMoves(obs.root) # {}) =>
        /\ search.depth <= search.arg.maxDepth
        /\ Len(out) = obs.spawns
        /\ \E m \in LegalMoves(obs.root) :
              \E beyond \in BeyondChars : LastBestmove = getMoveString(m, beyond)

\* C6: once the main thread has handled stop after starting the search
\* thread, every later poll of the search thread reads the flag as set, and
\* every call returns 0 from then on.
C6_StopSeenAtNextPoll ==
    (obs.stopSent /\ obs.polls > 0) =>
        /\ obs.lastPoll
        /\ (search.pc = "search" /\ search.mode = "return") => search.ret = 0

C8_StopBeforeDepthOneEmitsFirstMove ==
    (lastOp = "bestmove" /\ obs.completed = 0 /\ obs.stopIter = 1) =>
        \E beyond \in BeyondChars :
            LastBestmove = getMoveString(generateMoves(obs.root)[1], beyond)

\* C9: while a search thread runs, from its start to its bestmove, no command
\* line handled by the main thread changes the Position or the transposition
\* table.
C9_MainThreadLeavesEngineToSearch ==
    [][(SearchLive /\ uci'.cmds # uci.cmds) => (board' = board /\ table' = table)]_vars

\* C10: at most one search thread runs at any moment: go joins the previous
\* search thread before it starts the next, and uci() returns only when the
\* search thread has ended.
C10_OneSearchThread ==
    /\ obs.live <= 1
    /\ uci.pc = "returned" => obs.live = 0

C10_Witness ==
    /\ lastOp = "spawn"
    /\ obs.spawns = 2
    /\ obs.live = 1
    /\ Len(out) = 1

\* C17: the entries of the table outlast every command line and the start of
\* every search; only a step of a running search replaces entries, and the
\* table is created anew only by the first initialization and by the
\* initialization that follows setoption name Hash.
C17_TableKeptBetweenSearches ==
    [][/\ (table.initialized /\ lastOp' \notin {"search"})
            => table'.entries = table.entries
       /\ (table.initialized /\ ~table'.initialized) => lastOp' = "setoption"]_vars

\* the second search starts on a table that holds entries of the first
C17_Witness ==
    /\ lastOp = "setupSearch"
    /\ obs.spawns = 2
    /\ table.initialized
    /\ table.entries # {}


(***************************************************************************)
(* The clock of a search                                                   *)
(***************************************************************************)
\* setupSearch has just run for a go that gave the clock of the side to move
\* and no movetime, with the clock, the increment, movestogo and the
\* overhead in 0..5000
ClockKnown ==
    /\ lastOp = "setupSearch"
    /\ search.arg.movetime = -1
    /\ search.arg.time[board.sideToMove] \in 0..5000
    /\ search.arg.inc[board.sideToMove] \in 0..5000
    /\ search.arg.movestogo \in 0..5000
    /\ moveOverhead \in 0..5000

\* time[side] / movestogo + inc[side] - moveOverhead of the go just set up
Budget ==
    search.arg.time[board.sideToMove] \div search.arg.movestogo
    + search.arg.inc[board.sideToMove] - moveOverhead

\* C21: for every go in which the clock of the side to move is known,
\* setupSearch sets stopTime = startTime + max(0, time[side] / movestogo +
\* inc[side] - moveOverhead) in 64-bit unsigned arithmetic, so stopTime is
\* never earlier than startTime, for all clocks, increments, movestogo values
\* and overheads in 0..5000
C21_StopTimeIsClampedBudget ==
    ClockKnown =>
        /\ search.mode # "undefined"
        /\ info.timeSet
        /\ search.arg.movestogo > 0 =>
              /\ info.stopTime = Add64(info.startTime, Max({0, Budget}))
              /\ ~Less64(info.stopTime, info.startTime)


(***************************************************************************)
(* Mate in one                                                             *)
(***************************************************************************)
\* the side to move of b is checkmated: its king is attacked and it has no
\* legal move
Checkmated(b) ==
    /\ \E s \in Squares :
          /\ b.pieces[s] = pieceType[b.sideToMove][KING]
          /\ RefAttacked(b.pieces, s, 1 - b.sideToMove)
    /\ LegalMoves(b) = {}

\* the legal moves of b that checkmate
MatingMoves(b) == {m \in LegalMoves(b) : Checkmated(makeMove(b, m).board)}

\* C22: if the side to move at the root has a legal move that delivers
\* checkmate, every search that completes an iteration of depth >= 2 reports
\* a mate score (eval > 20000, printed as mate 1) and emits as bestmove a
\* move that checkmates
C22_MateInOneIsFound ==
    (/\ lastOp = "bestmove"
     /\ obs.completed >= 2
     /\ MatingMoves(obs.root) # {}) =>
        /\ obs.score > 20000
        /\ (MATE - obs.score + 1) \div 2 = 1
        /\ \E m \in MatingMoves(obs.root) :
              \E beyond \in BeyondChars : LastBestmove = getMoveString(m, beyond)


(***************************************************************************)
(* Perft                                                                   *)
(***************************************************************************)
\* the counts of depth 1 and 2 that the specification gives for its five
\* positions
PerftReference ==
    [fen \in {START_POS, FenKiwipete, FenPosition3, FenPosition4, FenPosition5} |->
        IF fen = START_POS THEN <<20, 400>>
        ELSE IF fen = FenKiwipete THEN <<48, 2039>>
        ELSE IF fen = FenPosition3 THEN <<14, 191>>
        ELSE IF fen = FenPosition4 THEN <<6, 264>>
        ELSE <<44, 1486>>]

\* C23: perft computed with generateMoves and makeMove/undoMove matches the
\* reference counts for each of the five reference positions: depth 1 gives
\* 20, 48, 14, 6, 44 and depth 2 gives 400, 2039, 191, 264, 1486 for the start
\* position, Kiwipete, Position 3, Position 4 and Position 5
C23_PerftMatchesReference ==
    (perftRun.done /\ perftRun.fen \in DOMAIN PerftReference) =>
        perftRun.nodes = PerftReference[perftRun.fen][perftRun.depth]

\* C23 with Position 4 as it is known, with a white pawn on g2; for the
\* position written in the specification, with a black pawn on g2, the counts
\* are 6 and 280
C23_PerftMatchesKnownPositions ==
    perftRun.done =>
        perftRun.nodes =
            IF perftRun.fen = FenPosition4 THEN <<6, 280>>[perftRun.depth]
            ELSE IF perftRun.fen = FenPosition4White THEN <<6, 264>>[perftRun.depth]
            ELSE PerftReference[perftRun.fen][perftRun.depth]

C23_Witness ==
    /\ perftRun.done
    /\ perftRun.fen = FenPosition4White
    /\ perftRun.depth = 2
    /\ perftRun.nodes = 264

(***************************************************************************)
(* The look-ups through the magic index against the walk along the rays.   *)
(***************************************************************************)
Diagonals == {<<1, 1>>, <<1, -1>>, <<-1, 1>>, <<-1, -1>>}

Lines == {<<0, 1>>, <<0, -1>>, <<1, 0>>, <<-1, 0>>}

\* the squares along the rays from s in the directions, up to and including
\* the first occupied square of each ray
RayWalk(s, occ, dirs) ==
    UNION {LET ray == Walk(FileOf(s), RankOf(s), d)
               dist(t) == IF t > s THEN t - s ELSE s - t
           IN  {t \in ray : \A u \in ray : dist(u) < dist(t) => u \notin occ} : d \in dirs}

\* for every subset of the blocker mask of the square: what the slow attacks
\* store is the ray walk, and one index never holds two attack sets
TableIsRayWalk(sq, dirs, boards, stored) ==
    /\ \A blockerIdx \in DOMAIN boards :
          stored[blockerIdx] = RayWalk(sq, boards[blockerIdx].blockers \cup {sq}, dirs)
    /\ Cardinality({<<boards[blockerIdx].index, stored[blockerIdx]>> :
                        blockerIdx \in DOMAIN boards})
           = Cardinality({boards[blockerIdx].index : blockerIdx \in DOMAIN boards})
    /\ \A blockerIdx \in DOMAIN boards : boards[blockerIdx].index \in DOMAIN boards

BishopTableIsRayWalk(sq, boards) ==
    TableIsRayWalk(sq, Diagonals, boards,
                   [blockerIdx \in DOMAIN boards |->
                        bishopAttacksSlow(sq, boards[blockerIdx].blockers)])

RookTableIsRayWalk(sq, boards) ==
    TableIsRayWalk(sq, Lines, boards,
                   [blockerIdx \in DOMAIN boards |->
                        rookAttacksSlow(sq, boards[blockerIdx].blockers)])

\* C24: after the attack tables are initialized, a look-up of getBishopAttacks
\* or getRookAttacks through the magic multiplication modulo 2^64 returns the
\* ray walk of the occupancy: the squares along the four diagonals (rank and
\* file) from the square up to and including the first occupied one; and on the
\* square looked up, no two subsets of the blocker mask with different attack
\* sets share a table index, every subset's stored attacks being its ray walk
C24_MagicLookupIsRayWalk ==
    /\ attackQuery.piece = BISHOP /\ attackQuery.done =>
          /\ attackQuery.attacks = RayWalk(attackQuery.sq, attackQuery.allPieces, Diagonals)
          /\ attackQuery.attacks = getBishopAttacks(attackQuery.sq, attackQuery.allPieces)
          /\ BishopTableIsRayWalk(attackQuery.sq,
                                  BlockerBoards(bishopBlockers[attackQuery.sq],
                                                bishopMagics[attackQuery.sq + 1]))
    /\ attackQuery.piece = ROOK /\ attackQuery.done =>
          /\ attackQuery.attacks = RayWalk(attackQuery.sq, attackQuery.allPieces, Lines)
          /\ attackQuery.attacks = getRookAttacks(attackQuery.sq, attackQuery.allPieces)
          /\ RookTableIsRayWalk(attackQuery.sq,
                                BlockerBoards(rookBlockers[attackQuery.sq],
                                              rookMagics[attackQuery.sq + 1]))

\* a rook on d4 among the pieces of the first two and last two ranks sees
\* d2..d7 and the whole fourth rank
C24_Witness ==
    /\ attackQuery.piece = ROOK /\ attackQuery.done
    /\ attackQuery.sq = 27
    /\ Cardinality(attackQuery.allPieces) = 33
    /\ attackQuery.attacks = {11, 19, 35, 43, 51, 24, 25, 26, 28, 29, 30, 31}

\* C25: after any sequence of position set-ups, makeMove and undoMove calls,
\* the moves of a position command included, 0 <= fiftyMoveCount <= 100
C25_FiftyMoveCountInRange ==
    board.fiftyMoveCount \in 0..100

\* every set castle-right bit has its king and its rook on their home squares
CastleRightsAtHome(b) ==
    /\ HasBit(b.castlePerms, CASTLE_WK) => b.pieces[E1] = WHITE_KING /\ b.pieces[H1] = WHITE_ROOK
    /\ HasBit(b.castlePerms, CASTLE_WQ) => b.pieces[E1] = WHITE_KING /\ b.pieces[A1] = WHITE_ROOK
    /\ HasBit(b.castlePerms, CASTLE_BK) => b.pieces[E8] = BLACK_KING /\ b.pieces[H8] = BLACK_ROOK
    /\ HasBit(b.castlePerms, CASTLE_BQ) => b.pieces[E8] = BLACK_KING /\ b.pieces[A8] = BLACK_ROOK

\* C26: in every position reached by makeMove and undoMove from a position in
\* which each set castle-right bit has its king and rook on their home
\* squares, each set castle-right bit has its king and rook on their home
\* squares; captures of a rook on its home square and castle moves included
C26_CastleRightsImplyHomeSquares ==
    CastleRightsAtHome(IF snaps = <<>> THEN before ELSE snaps[1])
        /\ lastOp \in {"makeMove", "undoMove"}
    => CastleRightsAtHome(board)

\* the rook of a8 has been captured on its home square and black's queenside
\* right is gone
C26_Witness ==
    /\ lastOp = "makeMove" /\ lastResult
    /\ before.pieces[A8] = BLACK_ROOK /\ HasBit(before.castlePerms, CASTLE_BQ)
    /\ CastleRightsAtHome(before)
    /\ board.pieces[A8] \in {WHITE_ROOK, WHITE_QUEEN}
    /\ ~HasBit(board.castlePerms, CASTLE_BQ) /\ HasBit(board.castlePerms, CASTLE_BK)

\* killers, history scores, searchPly and node count as setupSearch leaves them
HeuristicsCleared ==
    /\ \A p \in DOMAIN searchKillers : searchKillers[p] = <<0, 0>>
    /\ \A piece \in DOMAIN searchHistory :
          \A sq \in DOMAIN searchHistory[piece] : searchHistory[piece][sq] = 0
    /\ board.searchPly = 0
    /\ info.nodes = 0

\* C27: at the start of every searchPosition call, before its first alphaBeta
\* call and whatever the previous search left behind, all killer slots, all
\* history scores and all counter-move entries are cleared, searchPly is 0 and
\* the node count is 0
C27_SearchStateIsReset ==
    lastOp = "setupSearch" => HeuristicsCleared /\ counterMoves = <<>>

\* the tier of a move of the ordered list: 1 the PV or table move, 2 captures
\* and promotions, 3 killer 1, 4 killer 2, 5 quiet moves with a history score,
\* 6 the remaining quiet moves
Tier(move) ==
    IF sameMove(move, ordered.bestMove) THEN 1
    ELSE IF HasFlag(move, CAPTURE_FLAG) \/ HasFlag(move, EN_PASSANT_FLAG)
            \/ HasFlag(move, PROMOTION_FLAG) THEN 2
    ELSE IF sameMove(move, ordered.killers[1]) THEN 3
    ELSE IF sameMove(move, ordered.killers[2]) THEN 4
    ELSE IF /\ board.pieces[MoveFrom(move)] = ordered.history.piece
            /\ MoveTo(move) = ordered.history.to
            /\ ordered.history.value > 0 THEN 5
    ELSE 6

\* C28: after orderMoves every move of a higher tier precedes every move of a
\* lower tier whatever the sub-scores are: the PV or table move, captures and
\* promotions, killer 1, killer 2, moves with a history score, the remaining
\* quiet moves; no history value lets a quiet move outrank a killer, a capture
\* or the PV move
C28_TiersAreMonotone ==
    lastOp = "orderMoves" =>
        \A i, j \in 1..Len(ordered.moveList) :
            i < j => Tier(ordered.moveList[i]) <= Tier(ordered.moveList[j])

\* the move whose recursive call has just returned, and its value for the node
ReturnedMove == Top(search).moveList[Top(search).i]

ReturnedEval == -search.ret

\* the search thread is about to take the return of a child of an alphaBeta
\* node, not stopped, and the child's move is quiet and fails high
QuietCutoff ==
    /\ search.pc = "search" /\ ~obs.raced
    /\ search.mode = "return" /\ search.stack # <<>>
    /\ ~info.stop
    /\ ~Top(search).quiescent
    /\ ReturnedEval > Top(search).bestEval
    /\ ReturnedEval > Top(search).alpha
    /\ ReturnedEval >= Top(search).beta
    /\ ~HasFlag(ReturnedMove, CAPTURE_FLAG) /\ ~HasFlag(ReturnedMove, EN_PASSANT_FLAG)

\* what the step of the cutoff does to killers, counter-move, table and the
\* value alphaBeta returns
CutoffRecorded ==
    LET move == ReturnedMove
        sp == board'.searchPly
        prevMove == getPreviousMove(board')
        prevTo == MoveTo(prevMove)
    IN  /\ search'.mode = "return" /\ search'.ret = Top(search).beta
        /\ Len(search'.stack) = Len(search.stack) - 1
        /\ searchKillers'[sp] = <<move, searchKillers[sp][1]>>
        /\ prevMove # INVALID =>
              /\ <<board'.pieces[prevTo], prevTo>> \in DOMAIN counterMoves'
              /\ counterMoves'[<<board'.pieces[prevTo], prevTo>>] = move
        /\ \E entry \in table'.entries :
              entry.key = board'.positionKey /\ entry.type = LOWER_BOUND

\* the history score of the cutoff move has grown by depth * depth
CutoffHistoryGrown ==
    LET move == ReturnedMove
        piece == board'.pieces[MoveFrom(move)]
    IN  searchHistory'[piece][MoveTo(move)]
            = searchHistory[piece][MoveTo(move)] + Top(search).depth * Top(search).depth

\* C29: when a quiet move causes a beta cutoff at a node of depth d at ply p,
\* then when alphaBeta returns beta killers[p][0] is that move and
\* killers[p][1] the previous killers[p][0], the counter-move entry of the
\* opponent's previous move is that move, history[piece][to] of the move has
\* grown by d*d, and a LOWER_BOUND entry of the position is in the table
C29_QuietCutoffUpdatesHeuristics ==
    [][QuietCutoff /\ search' # search => CutoffRecorded /\ CutoffHistoryGrown]_vars

\* C30: under every interleaving of the main thread's stop with the search
\* thread no table entry is stored from an aborted subtree.  A node is aborted
\* only by a step that finds the stop flag set; from then on, while this search
\* runs, the flag stays set and no step of the search changes the table, so
\* every store is made by a step that found the flag false after every child
\* of its node had returned
C30_NoStoreFromAbortedSubtree ==
    [][(info.stop /\ search.pc = "search" /\ ~obs.raced)
          => /\ search'.pc = "search" => info'.stop
             /\ lastOp' \in {"search", "iteration"} => table'.entries = table.entries]_vars

\* a child has returned from a step that found the stop flag set, to a node of
\* a search that has stored entries before
C30_Witness ==
    /\ search.pc = "search" /\ ~obs.raced
    /\ info.stop /\ obs.lastPoll
    /\ search.mode = "return" /\ search.stack # <<>>
    /\ table.entries # {}

============================================================================
